---- MODULE Spec2Model ----
(***************************************************************************)
(* Model of the page objects of the Loop board test suite                  *)
(* (src/pages/LoginPage.js: classes LoginPage and DashboardPage), of its   *)
(* helpers (utils/testHelpers.js), and of the run of one test of           *)
(* tests/taskVerification.spec.js with its fixtures.                       *)
(*                                                                         *)
(* Strings are sequences of their UTF-16 code units, with JavaScript's     *)
(* 0-based indices: the code unit at JS index k of s is s[k + 1]. A code   *)
(* unit is a one-character string, or "(U+XXXX)", its code in four upper   *)
(* case hexadecimal digits, when it is a control character other than      *)
(* tab, line feed, form feed and carriage return, or is not ASCII.         *)
(* The page is the rendered document, a sequence of text-bearing elements  *)
(* in document order; page.textContent('body') is the concatenation of     *)
(* their texts, page.getByText(x, {exact: true}) selects the elements      *)
(* whose whole text is x.                                                  *)
(***************************************************************************)
EXTENDS Integers, Sequences, FiniteSets, TLC

VARIABLES
    page,      \* the rendered document: a sequence of [text, visible] elements
    COLUMNS,   \* DashboardPage.COLUMNS, the field set by the constructor
    ret,       \* the outcome of the last call made on the page object
    stale,     \* TRUE when the page changed since the call recorded in ret started
    test       \* the run of one test case of the suite: position, log, outcome

vars == <<page, COLUMNS, ret, stale, test>>

----------------------------------------------------------------------------
(* String literals of the source *)

ToDo == <<"T", "o", " ", "D", "o">>
InProgress == <<"I", "n", " ", "P", "r", "o", "g", "r", "e", "s", "s">>
Review == <<"R", "e", "v", "i", "e", "w">>
Done == <<"D", "o", "n", "e">>

Feature == <<"F", "e", "a", "t", "u", "r", "e">>
Bug == <<"B", "u", "g">>
Design == <<"D", "e", "s", "i", "g", "n">>
HighPriority == <<"H", "i", "g", "h", " ", "P", "r", "i", "o", "r", "i", "t", "y">>

\* `Could not determine column for task: ` (the text before ${taskName})
ErrPrefix == <<"C", "o", "u", "l", "d", " ", "n", "o", "t", " ", "d", "e", "t", "e", "r", "m", "i", "n", "e", " ", "c", "o", "l", "u", "m", "n", " ", "f", "o", "r", " ", "t", "a", "s", "k", ":", " ">>

\* this.COLUMNS = ['To Do', 'In Progress', 'Review', 'Done']
InitialColumns == <<ToDo, InProgress, Review, Done>>

\* const possibleTags = ['Feature', 'Bug', 'Design', 'High Priority']
possibleTags == <<Feature, Bug, Design, HighPriority>>

----------------------------------------------------------------------------
(* Texts the boards and the task names of the model are drawn from *)

ToDoHeader == <<"T", "o", " ", "D", "o", " ", "(", "2", ")">>
InProgressHeader == <<"I", "n", " ", "P", "r", "o", "g", "r", "e", "s", "s", " ", "(", "1", ")">>
ReviewHeader == <<"R", "e", "v", "i", "e", "w", " ", "(", "0", ")">>
DoneHeader == <<"D", "o", "n", "e", " ", "(", "0", ")">>
FixBug == <<"F", "i", "x", " ", "b", "u", "g">>
DesignUpdates == <<"D", "e", "s", "i", "g", "n", " ", "u", "p", "d", "a", "t", "e", "s">>
ImplementAuth == <<"I", "m", "p", "l", "e", "m", "e", "n", "t", " ", "a", "u", "t", "h">>
Fix == <<"F", "i", "x">>
FixBugLower == <<"f", "i", "x", " ", "b", "u", "g">>
MissingTask == <<"M", "i", "s", "s", "i", "n", "g", " ", "t", "a", "s", "k">>
BugPadded == <<" ", "B", "u", "g", " ">>
HighPriorityWide == <<"H", "i", "g", "h", " ", " ", "P", "r", "i", "o", "r", "i", "t", "y">>
Space == <<" ">>

\* an element of the document: its text, whether it is displayed, what
\* keeps an action on it from succeeding: nothing, that it never comes to
\* rest ("unstable"), that another element lies over it ("covered"), or
\* that it is disabled ("disabled"), and the form control it is: none, an
\* input of type text ("text"), an input of type password ("password"), or
\* a button ("button")
El(text) == [text |-> text, visible |-> TRUE, obstacle |-> "none", control |-> "none"]
Hidden(text) == [text |-> text, visible |-> FALSE, obstacle |-> "none", control |-> "none"]
Unstable(text) == [text |-> text, visible |-> TRUE, obstacle |-> "unstable", control |-> "none"]
Covered(text) == [text |-> text, visible |-> TRUE, obstacle |-> "covered", control |-> "none"]
Input(type) == [text |-> <<>>, visible |-> TRUE, obstacle |-> "none", control |-> type]
DisabledInput(type) == [text |-> <<>>, visible |-> TRUE, obstacle |-> "disabled", control |-> type]
Button(text) == [text |-> text, visible |-> TRUE, obstacle |-> "none", control |-> "button"]
CoveredButton(text) == [text |-> text, visible |-> TRUE, obstacle |-> "covered", control |-> "button"]

\* "To Do (2) Implement auth Fix bug In Progress (1) Design updates Done (0)"
ScenarioPage ==
    << El(ToDoHeader \o Space), El(ImplementAuth \o Space), El(FixBug \o Space),
       El(InProgressHeader \o Space), El(DesignUpdates \o Space), El(DoneHeader) >>

\* the most elements a generated board holds
MaxElems == 4

\* elements of the boards the column lookups are explored on: three column
\* headers, a task card, and a card whose title is the name of a column
ColumnElements ==
    { El(ToDoHeader), El(ReviewHeader), El(DoneHeader), El(FixBug), El(Review) }

\* the most elements a generated board of tag labels holds
MaxTagElems == 3

\* elements of the boards the tag lookups are explored on: a tag label, a
\* tag label rendered with blanks around it, a card whose title starts with
\* a tag label, a tag label that is not displayed, the same label displayed,
\* a tag label rendered with two blanks between its words, a tag label that
\* another element covers, and a tag label that never comes to rest
TagElements ==
    { El(Feature), El(BugPadded), El(DesignUpdates), Hidden(Design), El(Design),
      El(HighPriorityWide), Covered(Feature), Unstable(Bug) }

\* the most elements a generated board holds when every operation is explored
MaxBoardElems == 2

\* elements of the boards every operation is explored on
BoardElements ==
    { El(ToDoHeader), El(DoneHeader), El(FixBug), El(Feature), El(BugPadded), Hidden(Design) }

\* expected tag lists handed to verifyTaskTags
ExpectedTagLists == { <<Feature>>, <<Bug, Feature>>, <<HighPriority, Design, Bug>> }

\* task names looked up: the title of a card, the name of a column, a
\* header, a title that is on no board, and the title of a card cut short
\* and in other letter case
TaskNames == { FixBug, Review, ReviewHeader, DesignUpdates, MissingTask, Fix, FixBugLower }

\* task names handed to the tag operations: a card of the tag boards and a
\* task that is on none of them
TagTaskNames == { DesignUpdates, FixBug }

Range(s) == { s[i] : i \in 1..Len(s) }

\* the most elements the board of a project holds in a test run
MaxTestElems == 3

\* elements of the boards the test runs are explored on: two column headers,
\* a task card, the same card not displayed, a tag label, and the same
\* label covered by another element
TestElements ==
    { El(ToDoHeader), El(DoneHeader), El(FixBug), Hidden(FixBug), El(BugPadded),
      Covered(Bug) }

Boards(pool, n) == UNION { [1..k -> pool] : k \in 0..n }

----------------------------------------------------------------------------
(* JavaScript and browser primitives *)

UpperCaseLetters ==
    <<"A", "B", "C", "D", "E", "F", "G", "H", "I", "J", "K", "L", "M",
      "N", "O", "P", "Q", "R", "S", "T", "U", "V", "W", "X", "Y", "Z">>
LowerCaseLetters ==
    <<"a", "b", "c", "d", "e", "f", "g", "h", "i", "j", "k", "l", "m",
      "n", "o", "p", "q", "r", "s", "t", "u", "v", "w", "x", "y", "z">>

\* String.prototype.toLowerCase()
toLowerCase(s) ==
    [i \in 1..Len(s) |->
        IF \E j \in 1..26 : UpperCaseLetters[j] = s[i]
        THEN LowerCaseLetters[CHOOSE j \in 1..26 : UpperCaseLetters[j] = s[i]]
        ELSE s[i]]

\* a comparison that ignores the case of the letters
MatchAt_IgnoreCase(s, pat, k) ==
    /\ k >= 0
    /\ k + Len(pat) <= Len(s)
    /\ \A j \in 1..Len(pat) : toLowerCase(<<s[k + j]>>) = toLowerCase(<<pat[j]>>)

\* does pat occur in s at JS index k
MatchAt(s, pat, k) ==
    /\ k >= 0
    /\ k + Len(pat) <= Len(s)
    /\ \A j \in 1..Len(pat) : s[k + j] = pat[j]

\* String.prototype.indexOf(searchString, position): the smallest index
\* >= position at which searchString occurs, -1 when there is none
RECURSIVE indexOfFrom(_, _, _)
indexOfFrom(s, pat, k) ==
    IF k + Len(pat) > Len(s) THEN -1
    ELSE IF MatchAt(s, pat, k) THEN k
    ELSE indexOfFrom(s, pat, k + 1)

indexOf(s, pat, position) ==
    indexOfFrom(s, pat, IF position < 0 THEN 0 ELSE IF position > Len(s) THEN Len(s) ELSE position)

\* page.textContent('body'): the text of every node, hidden ones included,
\* concatenated in document order
RECURSIVE textContent(_)
textContent(pg) ==
    IF pg = <<>> THEN <<>> ELSE Head(pg).text \o textContent(Tail(pg))

----------------------------------------------------------------------------
(* DashboardPage.getTaskColumn *)

Return(v) == [kind |-> "return", value |-> v]

\* throw new Error(msg)
Throw(msg) == [kind |-> "throw", value |-> msg, name |-> <<"E", "r", "r", "o", "r">>]

\* the TimeoutError an awaited call of the browser rejects with
ThrowTimeout(msg) ==
    [kind |-> "throw", value |-> msg,
     name |-> <<"T", "i", "m", "e", "o", "u", "t", "E", "r", "r", "o", "r">>]

\* a header pattern with the blank left out
columnPattern_NoSpace(columnName) == columnName \o <<"(">>

\* `${columnName} (`
columnPattern(columnName) == columnName \o <<" ", "(">>

\* an inner loop that looks only at the columns that follow columnName in
\* the list
RECURSIVE nextColumnLoop_LaterOnly(_, _, _, _, _, _)
nextColumnLoop_LaterOnly(pageText, columns, columnName, columnIndex, j, nextColumnIndex) ==
    IF j > Len(columns) THEN nextColumnIndex
    ELSE IF j <= (CHOOSE i \in 1..Len(columns) : columns[i] = columnName)
    THEN nextColumnLoop_LaterOnly(pageText, columns, columnName, columnIndex, j + 1, nextColumnIndex)
    ELSE LET nextIdx == indexOf(pageText, columnPattern(columns[j]), columnIndex + 1)
         IN  nextColumnLoop_LaterOnly(pageText, columns, columnName, columnIndex, j + 1,
                 IF nextIdx > columnIndex /\ nextIdx < nextColumnIndex
                 THEN nextIdx ELSE nextColumnIndex)

\* the inner loop, lines 110-118: from position j of columns on, with the
\* nextColumnIndex found so far
RECURSIVE nextColumnLoop(_, _, _, _, _, _)
nextColumnLoop(pageText, columns, columnName, columnIndex, j, nextColumnIndex) ==
    IF j > Len(columns) THEN nextColumnIndex
    ELSE IF columns[j] = columnName
    THEN nextColumnLoop(pageText, columns, columnName, columnIndex, j + 1, nextColumnIndex)
    ELSE LET nextIdx == indexOf(pageText, columnPattern(columns[j]), columnIndex + 1)
         IN  nextColumnLoop(pageText, columns, columnName, columnIndex, j + 1,
                 IF nextIdx > columnIndex /\ nextIdx < nextColumnIndex
                 THEN nextIdx ELSE nextColumnIndex)

\* a section test that forgets the end of the section
taskInSection_NoUpperBound(pageText, taskName, columnIndex, nextColumnIndex) ==
    LET taskIndex == indexOf(pageText, taskName, columnIndex)
    IN  taskIndex > columnIndex

\* a section test that forgets that indexOf answers -1
taskInSection_NoLowerBound(pageText, taskName, columnIndex, nextColumnIndex) ==
    LET taskIndex == indexOf(pageText, taskName, columnIndex)
    IN  taskIndex < nextColumnIndex

\* a section test that wants a character between the task and the next header
taskInSection_EndStrict(pageText, taskName, columnIndex, nextColumnIndex) ==
    LET taskIndex == indexOf(pageText, taskName, columnIndex)
    IN  taskIndex > columnIndex /\ taskIndex + Len(taskName) < nextColumnIndex

\* lines 121-122: the first occurrence of the task at or after the header,
\* and whether it lies in the section
taskInSection(pageText, taskName, columnIndex, nextColumnIndex) ==
    LET taskIndex == indexOf(pageText, taskName, columnIndex)
    IN  taskIndex > columnIndex /\ taskIndex < nextColumnIndex

\* an error that does not say which task
notFound_NoName(taskName) == Throw(ErrPrefix)

\* line 127: throw new Error(`Could not determine column for task: ${taskName}`)
notFound(taskName) == Throw(ErrPrefix \o taskName)

\* an outer loop that goes on with a column whose header was not found
RECURSIVE columnLoop_NoSkip(_, _, _, _)
columnLoop_NoSkip(pageText, columns, taskName, i) ==
    IF i > Len(columns) THEN notFound(taskName)
    ELSE LET columnName == columns[i]
             columnIndex == indexOf(pageText, columnPattern(columnName), 0)
             nextColumnIndex ==
                 nextColumnLoop(pageText, columns, columnName, columnIndex, 1, Len(pageText))
         IN  IF taskInSection(pageText, taskName, columnIndex, nextColumnIndex)
             THEN Return(columnName)
             ELSE columnLoop_NoSkip(pageText, columns, taskName, i + 1)

\* the outer loop, lines 102-127, from position i of columns on
RECURSIVE columnLoop(_, _, _, _)
columnLoop(pageText, columns, taskName, i) ==
    IF i > Len(columns) THEN notFound(taskName)
    ELSE LET columnName == columns[i]
             columnIndex == indexOf(pageText, columnPattern(columnName), 0)
         IN  IF columnIndex = -1 THEN columnLoop(pageText, columns, taskName, i + 1)
             ELSE LET nextColumnIndex ==
                          nextColumnLoop(pageText, columns, columnName, columnIndex, 1, Len(pageText))
                  IN  IF taskInSection(pageText, taskName, columnIndex, nextColumnIndex)
                      THEN Return(columnName)
                      ELSE columnLoop(pageText, columns, taskName, i + 1)

getTaskColumn(pg, columns, taskName) ==
    columnLoop(textContent(pg), columns, taskName, 1)

----------------------------------------------------------------------------
(* Locators: page.getByText(text, { exact: true }) *)

\* Playwright's whitespace normalisation of a text: leading and trailing
\* blanks dropped, every run of blanks turned into one
RECURSIVE stripLeading(_)
stripLeading(s) ==
    IF s = <<>> THEN <<>>
    ELSE IF Head(s) = " " THEN stripLeading(Tail(s)) ELSE s

RECURSIVE collapseBlanks(_)
collapseBlanks(s) ==
    IF s = <<>> THEN <<>>
    ELSE IF Head(s) = " "
    THEN LET rest == stripLeading(s)
         IN  IF rest = <<>> THEN <<>> ELSE <<" ">> \o collapseBlanks(rest)
    ELSE <<Head(s)>> \o collapseBlanks(Tail(s))

normalizeWhiteSpace(s) == collapseBlanks(stripLeading(s))

\* a locator that matches every element whose text contains the text
getByText_Substring(pg, text) ==
    SelectSeq(pg, LAMBDA el : \E k \in 0..Len(el.text) : MatchAt(el.text, text, k))

\* the elements getByText(text, { exact: true }) resolves to, in document
\* order: those whose whole text is the given text, case-sensitively, after
\* whitespace normalisation
getByText(pg, text) ==
    SelectSeq(pg, LAMBDA el :
        normalizeWhiteSpace(el.text) = normalizeWhiteSpace(text))

\* locator.count()
count(locator) == Len(locator)

\* locator.first().waitFor({ state: 'visible', timeout: 5000 }) resolves:
\* the first matching element exists and is visible
firstIsVisible(locator) == locator # <<>> /\ Head(locator).visible

\* locator.first().scrollIntoViewIfNeeded() resolves: the first matching
\* element is displayed and comes to rest
scrollIntoViewIfNeeded(locator) ==
    locator # <<>> /\ Head(locator).visible /\ Head(locator).obstacle # "unstable"

\* a hover that does not check that the element receives the pointer
hover_Uncovered(locator) ==
    locator # <<>> /\ Head(locator).visible /\ Head(locator).obstacle # "unstable"

\* locator.first().hover() resolves: the first matching element is
\* displayed, at rest, and not covered by another element
hover(locator) ==
    locator # <<>> /\ Head(locator).visible /\ Head(locator).obstacle \in {"none", "disabled"}

\* locator.click() resolves, under the conditions of hover() on an element
\* that is enabled
click(locator) == hover(locator) /\ Head(locator).obstacle # "disabled"

----------------------------------------------------------------------------
(* DashboardPage.getTaskTags *)

\* a tag counts only when exactly one element carries it
tagFound_ExactlyOne(pg, tag) == count(getByText(pg, tag)) = 1

\* lines 143-145: the tag's locator matches at least one element
tagFound(pg, tag) == count(getByText(pg, tag)) > 0

\* the loop of lines 142-148, from position i of possibleTags on
RECURSIVE tagLoop(_, _, _)
tagLoop(pg, i, foundTags) ==
    IF i > Len(possibleTags) THEN foundTags
    ELSE tagLoop(pg, i + 1,
             IF tagFound(pg, possibleTags[i]) THEN Append(foundTags, possibleTags[i]) ELSE foundTags)

\* a lookup that reads only the elements that follow the task's card
getTaskTags_Scoped(pg, taskName) ==
    LET cards == { i \in 1..Len(pg) : getByText(<<pg[i]>>, taskName) # <<>> }
    IN  IF cards = {} THEN Return(<<>>)
        ELSE Return(tagLoop(SubSeq(pg, (CHOOSE i \in cards : \A j \in cards : i <= j) + 1, Len(pg)), 1, <<>>))

getTaskTags(pg, taskName) == Return(tagLoop(pg, 1, <<>>))

----------------------------------------------------------------------------
(* DashboardPage.verifyTaskTags *)

MsgTask == <<"T", "a", "s", "k", " ", "'">>
MsgHasAll == <<"'", " ", "h", "a", "s", " ", "a", "l", "l", " ", "e", "x", "p", "e", "c", "t", "e", "d", " ", "t", "a", "g", "s", ":", " ", "[">>
MsgMissing == <<"'", " ", "i", "s", " ", "m", "i", "s", "s", "i", "n", "g", " ", "t", "a", "g", "s", ":", " ", "[">>
MsgClose == <<"]">>
CommaSpace == <<",", " ">>

\* Array.prototype.join(', ')
RECURSIVE join(_, _)
join(strings, sep) ==
    IF strings = <<>> THEN <<>>
    ELSE IF Len(strings) = 1 THEN strings[1]
    ELSE strings[1] \o sep \o join(Tail(strings), sep)

\* the try block of lines 197-207 for one tag, on a page that stays as it
\* is: the four awaited calls resolve (the pause of 300 ms always does)
tagHighlighted(pg, tag) ==
    LET tagLocator == getByText(pg, tag)
    IN  /\ firstIsVisible(tagLocator)
        /\ scrollIntoViewIfNeeded(tagLocator)
        /\ hover(tagLocator)

\* the loop of lines 194-211, from position i of expectedTags on: a tag for
\* which one of the awaited calls throws is caught and pushed on missing
RECURSIVE expectedLoop(_, _, _, _)
expectedLoop(pg, expectedTags, i, missing) ==
    IF i > Len(expectedTags) THEN missing
    ELSE expectedLoop(pg, expectedTags, i + 1,
             IF tagHighlighted(pg, expectedTags[i]) THEN missing
             ELSE Append(missing, expectedTags[i]))

\* a result that reports as actual the expected tags that are not missing
verifyTaskTagsResult_ActualVerified(taskName, expectedTags, missing) ==
    LET success == Len(missing) = 0
    IN  [ success |-> success,
          actual |-> SelectSeq(expectedTags, LAMBDA tag : tag \notin Range(missing)),
          expected |-> expectedTags,
          missing |-> missing,
          message |-> IF success
                      THEN MsgTask \o taskName \o MsgHasAll \o join(expectedTags, CommaSpace) \o MsgClose
                      ELSE MsgTask \o taskName \o MsgMissing \o join(missing, CommaSpace) \o MsgClose ]

\* lines 213-223: the result object, whose actual and expected are both the
\* list passed in
verifyTaskTagsResult(taskName, expectedTags, missing) ==
    LET success == Len(missing) = 0
    IN  [ success |-> success,
          actual |-> expectedTags,
          expected |-> expectedTags,
          missing |-> missing,
          message |-> IF success
                      THEN MsgTask \o taskName \o MsgHasAll \o join(expectedTags, CommaSpace) \o MsgClose
                      ELSE MsgTask \o taskName \o MsgMissing \o join(missing, CommaSpace) \o MsgClose ]

\* lines 190-224, on a page that stays as it is during the call
verifyTaskTags(pg, taskName, expectedTags) ==
    Return(verifyTaskTagsResult(taskName, expectedTags, expectedLoop(pg, expectedTags, 1, <<>>)))

----------------------------------------------------------------------------
(* DashboardPage.verifyTaskColumn *)

MsgCorrectlyIn == <<"'", " ", "i", "s", " ", "c", "o", "r", "r", "e", "c", "t", "l", "y", " ", "i", "n", " ", "'">>
MsgColumn == <<"'", " ", "c", "o", "l", "u", "m", "n">>
MsgIsIn == <<"'", " ", "i", "s", " ", "i", "n", " ", "'">>
MsgButExpected == <<"'", " ", "b", "u", "t", " ", "e", "x", "p", "e", "c", "t", "e", "d", " ", "'">>
MsgQuote == <<"'">>

\* the values of the fields of a test case of testData.json: a string, an
\* array of strings, or undefined for a field the object does not have;
\* val holds the string alone, or the elements of the array
Undefined == [type |-> "undefined", val |-> <<>>]
Str(s) == [type |-> "string", val |-> <<s>>]
Arr(a) == [type |-> "array", val |-> a]

UndefinedText == <<"u", "n", "d", "e", "f", "i", "n", "e", "d">>

\* `${value}`
StringOf(v) ==
    IF v.type = "string" THEN v.val[1]
    ELSE IF v.type = "array" THEN join(v.val, <<",">>)
    ELSE UndefinedText

\* string === value
strictEquals(string, v) == v.type = "string" /\ v.val[1] = string

\* the result object of lines 173-180
verifyTaskColumnResult(taskName, actualColumn, expectedColumn) ==
    LET success == strictEquals(actualColumn, expectedColumn)
    IN  [ success |-> success,
          actual |-> actualColumn,
          expected |-> expectedColumn,
          message |-> IF success
                      THEN MsgTask \o taskName \o MsgCorrectlyIn \o StringOf(expectedColumn) \o MsgColumn
                      ELSE MsgTask \o taskName \o MsgIsIn \o actualColumn
                               \o MsgButExpected \o StringOf(expectedColumn) \o MsgQuote ]

\* a verification that answers a failed result when the lookup throws
verifyTaskColumn_Swallow(pg, columns, taskName, expectedColumn) ==
    LET actualColumn == getTaskColumn(pg, columns, taskName)
    IN  Return(verifyTaskColumnResult(taskName,
                   IF actualColumn.kind = "throw" THEN <<>> ELSE actualColumn.value, expectedColumn))

\* a verification that always words its message as a mismatch
verifyTaskColumn_OneMessage(pg, columns, taskName, expectedColumn) ==
    LET actualColumn == getTaskColumn(pg, columns, taskName)
    IN  IF actualColumn.kind = "throw" THEN actualColumn
        ELSE Return([ verifyTaskColumnResult(taskName, actualColumn.value, expectedColumn)
                          EXCEPT !.message = MsgTask \o taskName \o MsgIsIn \o actualColumn.value
                                                 \o MsgButExpected \o StringOf(expectedColumn) \o MsgQuote ])

\* lines 169-181: the error of getTaskColumn is not caught, it leaves
\* verifyTaskColumn as it was thrown; otherwise the result object, in which
\* expected is the value handed in and success the strict equality of the
\* column found with it
verifyTaskColumn(pg, columns, taskName, expectedColumn) ==
    LET actualColumn == getTaskColumn(pg, columns, taskName)
    IN  IF actualColumn.kind = "throw" THEN actualColumn
        ELSE Return(verifyTaskColumnResult(taskName, actualColumn.value, expectedColumn))

----------------------------------------------------------------------------
(* BasePage, LoginPage, DashboardPage.navigateToProject and isTaskVisible *)

Projects == <<"P", "r", "o", "j", "e", "c", "t", "s">>
SignIn == <<"S", "i", "g", "n", " ", "i", "n">>
Login == <<"L", "o", "g", "i", "n">>
LocatorWaitFor == <<"l", "o", "c", "a", "t", "o", "r", ".", "w", "a", "i", "t", "F", "o", "r">>
LocatorClear == <<"l", "o", "c", "a", "t", "o", "r", ".", "c", "l", "e", "a", "r">>
LocatorFill == <<"l", "o", "c", "a", "t", "o", "r", ".", "f", "i", "l", "l">>
LocatorClick == <<"l", "o", "c", "a", "t", "o", "r", ".", "c", "l", "i", "c", "k">>
PageGoto == <<"p", "a", "g", "e", ".", "g", "o", "t", "o">>
PageWaitForLoadState == <<"p", "a", "g", "e", ".", "w", "a", "i", "t", "F", "o", "r", "L", "o", "a", "d", "S", "t", "a", "t", "e">>
MsgTimeout == <<":", " ", "T", "i", "m", "e", "o", "u", "t", " ">>
MsgExceeded == <<"m", "s", " ", "e", "x", "c", "e", "e", "d", "e", "d", ".">>
StrictModeViolation == <<":", " ", "E", "r", "r", "o", "r", ":", " ", "s", "t", "r", "i", "c", "t", " ", "m", "o", "d", "e", " ", "v", "i", "o", "l", "a", "t", "i", "o", "n">>

\* the timeouts in milliseconds, as the messages write them: the waits of
\* clickElement and fillInput, the actionTimeout and the navigationTimeout
\* of the configuration
Timeout10000 == <<"1", "0", "0", "0", "0">>
ActionTimeout == <<"1", "5", "0", "0", "0">>
NavigationTimeout == <<"3", "0", "0", "0", "0">>

\* the TimeoutError of a call: "<call>: Timeout <ms>ms exceeded."
TimeoutError(call, ms) == ThrowTimeout(call \o MsgTimeout \o ms \o MsgExceeded)

\* the error of a call on a locator that is not .first() and resolves to
\* more than one element; the message goes on with the locator and the
\* elements, which are left out
StrictError(call) == Throw(call \o StrictModeViolation)

\* locator.first()
first(locator) == IF locator = <<>> THEN <<>> ELSE <<Head(locator)>>

\* :has-text(text): the text of the element contains the text, whatever the
\* case of the letters, after whitespace normalisation
hasText(el, text) ==
    indexOf(toLowerCase(normalizeWhiteSpace(el.text)), toLowerCase(normalizeWhiteSpace(text)), 0) >= 0

\* LoginPage line 15: input[type="text"], input[name="username"],
\* input#username; the inputs of the model have a type and neither name nor
\* id
emailInput(pg) == SelectSeq(pg, LAMBDA el : el.control = "text")

\* line 16: input[type="password"]
passwordInput(pg) == SelectSeq(pg, LAMBDA el : el.control = "password")

\* line 17: button[type="submit"], button:has-text("Login"),
\* button:has-text("Sign in"); the buttons of the model have no type
\* attribute
loginButton(pg) ==
    SelectSeq(pg, LAMBDA el : el.control = "button" /\ (hasText(el, Login) \/ hasText(el, SignIn)))

\* await locator.waitFor({ state: 'visible', timeout: 10000 })
locatorWaitFor(locator) ==
    IF Len(locator) > 1 THEN StrictError(LocatorWaitFor)
    ELSE IF locator # <<>> /\ Head(locator).visible THEN Return(<<>>)
    ELSE TimeoutError(LocatorWaitFor, Timeout10000)

\* await locator.clear(): the element is displayed and enabled
locatorClear(locator) ==
    IF Len(locator) > 1 THEN StrictError(LocatorClear)
    ELSE IF locator # <<>> /\ Head(locator).visible /\ Head(locator).obstacle # "disabled"
    THEN Return(<<>>)
    ELSE TimeoutError(LocatorClear, ActionTimeout)

\* await locator.fill(text): the element is displayed and enabled
locatorFill(locator) ==
    IF Len(locator) > 1 THEN StrictError(LocatorFill)
    ELSE IF locator # <<>> /\ Head(locator).visible /\ Head(locator).obstacle # "disabled"
    THEN Return(<<>>)
    ELSE TimeoutError(LocatorFill, ActionTimeout)

\* await locator.click(): the element is displayed, at rest, enabled and
\* not covered
locatorClick(locator) ==
    IF Len(locator) > 1 THEN StrictError(LocatorClick)
    ELSE IF click(locator) THEN Return(<<>>)
    ELSE TimeoutError(LocatorClick, ActionTimeout)

\* BasePage.isVisible, part_000 lines 67-76: whatever the wait throws is
\* caught and answered with false
isVisible(locator) == locatorWaitFor(locator).kind = "return"

\* a check that holds on every page
isLoggedIn_Always(pg) == TRUE

\* LoginPage.isLoggedIn: BasePage.isVisible of the locator text="Projects"
isLoggedIn(pg) == isVisible(getByText(pg, Projects))

\* a check that holds as soon as the document holds the card
isTaskVisible_Attached(pg, taskName) == count(getByText(pg, taskName)) > 0

\* DashboardPage.isTaskVisible: BasePage.isVisible of getTaskCard(taskName),
\* the first element whose whole text is the task name
isTaskVisible(pg, taskName) == isVisible(first(getByText(pg, taskName)))

----------------------------------------------------------------------------
(* utils/testHelpers.js *)

TestIdField == <<"t", "e", "s", "t", "I", "d">>
DescriptionField == <<"d", "e", "s", "c", "r", "i", "p", "t", "i", "o", "n">>
ProjectField == <<"p", "r", "o", "j", "e", "c", "t">>
TaskNameField == <<"t", "a", "s", "k", "N", "a", "m", "e">>
ExpectedColumnField == <<"e", "x", "p", "e", "c", "t", "e", "d", "C", "o", "l", "u", "m", "n">>
ExpectedTagsField == <<"e", "x", "p", "e", "c", "t", "e", "d", "T", "a", "g", "s">>
MsgMissingField == <<"T", "e", "s", "t", " ", "c", "a", "s", "e", " ", "m", "i", "s", "s", "i", "n", "g", " ", "r", "e", "q", "u", "i", "r", "e", "d", " ", "f", "i", "e", "l", "d", ":", " ">>
MsgNotArray == <<"e", "x", "p", "e", "c", "t", "e", "d", "T", "a", "g", "s", " ", "m", "u", "s", "t", " ", "b", "e", " ", "a", "n", " ", "a", "r", "r", "a", "y", " ", "f", "o", "r", " ", "t", "e", "s", "t", " ", "c", "a", "s", "e", ":", " ">>
MsgEmptyTags == <<"e", "x", "p", "e", "c", "t", "e", "d", "T", "a", "g", "s", " ", "c", "a", "n", "n", "o", "t", " ", "b", "e", " ", "e", "m", "p", "t", "y", " ", "f", "o", "r", " ", "t", "e", "s", "t", " ", "c", "a", "s", "e", ":", " ">>
Execution == <<"E", "x", "e", "c", "u", "t", "i", "o", "n">>

\* !value
Falsy(v) == v.type = "undefined" \/ (v.type = "string" /\ v.val[1] = <<>>)

\* Array.isArray(value)
isArray(v) == v.type = "array"

requiredFields ==
    <<TestIdField, DescriptionField, ProjectField, TaskNameField, ExpectedColumnField, ExpectedTagsField>>

\* the loop of lines 529-533, from position i of requiredFields on
RECURSIVE requiredLoop(_, _)
requiredLoop(testCase, i) ==
    IF i > Len(requiredFields) THEN Return(<<>>)
    ELSE IF Falsy(testCase[requiredFields[i]])
    THEN Throw(MsgMissingField \o requiredFields[i])
    ELSE requiredLoop(testCase, i + 1)

\* a validation that accepts an empty array of expected tags
validateTestCase_AllowEmpty(testCase) ==
    LET missingField == requiredLoop(testCase, 1)
    IN  IF missingField.kind = "throw" THEN missingField
        ELSE IF ~isArray(testCase[ExpectedTagsField])
        THEN Throw(MsgNotArray \o StringOf(testCase[TestIdField]))
        ELSE Return(<<>>)

validateTestCase(testCase) ==
    LET missingField == requiredLoop(testCase, 1)
    IN  IF missingField.kind = "throw" THEN missingField
        ELSE IF ~isArray(testCase[ExpectedTagsField])
        THEN Throw(MsgNotArray \o StringOf(testCase[TestIdField]))
        ELSE IF Len(testCase[ExpectedTagsField].val) = 0
        THEN Throw(MsgEmptyTags \o StringOf(testCase[TestIdField]))
        ELSE Return(<<>>)

\* console.log(`[${testId}] ${message}`)
logProgress(testId, message) == <<"[">> \o testId \o <<"]", " ">> \o message

\* a code unit that is written "(U+XXXX)", from its four hexadecimal
\* digits
UpperHex == <<"0", "1", "2", "3", "4", "5", "6", "7", "8", "9", "A", "B", "C", "D", "E", "F">>
LowerHex == <<"0", "1", "2", "3", "4", "5", "6", "7", "8", "9", "a", "b", "c", "d", "e", "f">>
CodeUnit(a, b, c, d) ==
    "(U+" \o UpperHex[a + 1] \o UpperHex[b + 1] \o UpperHex[c + 1] \o UpperHex[d + 1] \o ")"

\* the characters String.prototype.trim() drops at both ends: the white
\* space of ECMAScript (tab, vertical tab, form feed, the byte order mark
\* and the space separators of Unicode) and its line terminators
WhiteSpace ==
    { "\t", "(U+000B)", "\f", " ", "(U+00A0)", "(U+FEFF)",
      "(U+1680)", "(U+2000)", "(U+2001)", "(U+2002)", "(U+2003)", "(U+2004)", "(U+2005)",
      "(U+2006)", "(U+2007)", "(U+2008)", "(U+2009)", "(U+200A)", "(U+202F)", "(U+205F)",
      "(U+3000)",
      "\n", "\r", "(U+2028)", "(U+2029)" }

RECURSIVE trimStart(_)
trimStart(s) ==
    IF s = <<>> THEN <<>>
    ELSE IF Head(s) \in WhiteSpace THEN trimStart(Tail(s)) ELSE s

RECURSIVE trimEnd(_)
trimEnd(s) ==
    IF s = <<>> THEN <<>>
    ELSE IF s[Len(s)] \in WhiteSpace THEN trimEnd(SubSeq(s, 1, Len(s) - 1)) ELSE s

\* String.prototype.trim()
trim(s) == trimEnd(trimStart(s))

\* the code units U+0000 to U+001F, in their order
ControlCharacters ==
    << "(U+0000)", "(U+0001)", "(U+0002)", "(U+0003)", "(U+0004)", "(U+0005)", "(U+0006)", "(U+0007)",
       "(U+0008)", "\t", "\n", "(U+000B)", "\f", "\r", "(U+000E)", "(U+000F)",
       "(U+0010)", "(U+0011)", "(U+0012)", "(U+0013)", "(U+0014)", "(U+0015)", "(U+0016)", "(U+0017)",
       "(U+0018)", "(U+0019)", "(U+001A)", "(U+001B)", "(U+001C)", "(U+001D)", "(U+001E)", "(U+001F)" >>

\* the code units U+D800 to U+DBFF and U+DC00 to U+DFFF: one of the first
\* followed by one of the second is one character, any other of them is a
\* lone surrogate
HighSurrogates == { CodeUnit(13, b, c, d) : b \in 8..11, c \in 0..15, d \in 0..15 }
LowSurrogates == { CodeUnit(13, b, c, d) : b \in 12..15, c \in 0..15, d \in 0..15 }

\* the code unit is one of the given surrogates; only a code unit written
\* "(U+XXXX)", which is longer than one character, can be one
isSurrogate(c, surrogates) == Len(c) > 1 /\ c \in surrogates

\* \uxxxx, with the digits in lower case
UnicodeEscape(a, b, c, d) ==
    <<"\\", "u", LowerHex[a + 1], LowerHex[b + 1], LowerHex[c + 1], LowerHex[d + 1]>>

\* JSON.stringify of one code unit of a string: the double quote and the
\* backslash get a backslash; backspace, tab, line feed, form feed and
\* carriage return their short escape; every other code unit below U+0020
\* and a lone surrogate the escape of their code; any other is kept
escapeCharacter(c) ==
    CASE c = "\"" -> <<"\\", "\"">>
      [] c = "\\" -> <<"\\", "\\">>
      [] c \in Range(ControlCharacters) ->
             LET code == (CHOOSE i \in 1..Len(ControlCharacters) : ControlCharacters[i] = c) - 1
             IN  CASE code = 8 -> <<"\\", "b">>
                   [] code = 9 -> <<"\\", "t">>
                   [] code = 10 -> <<"\\", "n">>
                   [] code = 12 -> <<"\\", "f">>
                   [] code = 13 -> <<"\\", "r">>
                   [] OTHER -> UnicodeEscape(0, 0, code \div 16, code % 16)
      [] isSurrogate(c, HighSurrogates) \/ isSurrogate(c, LowSurrogates) ->
             LET u == CHOOSE u \in (8..15) \X (0..15) \X (0..15) :
                          CodeUnit(13, u[1], u[2], u[3]) = c
             IN  UnicodeEscape(13, u[1], u[2], u[3])
      [] OTHER -> <<c>>

\* the pieces from..to of a sequence of strings, one after the other
RECURSIVE concat(_, _, _)
concat(pieces, from, to) ==
    IF from > to THEN <<>>
    ELSE IF from = to THEN pieces[from]
    ELSE LET middle == (from + to) \div 2
         IN  concat(pieces, from, middle) \o concat(pieces, middle + 1, to)

\* JSON.stringify of the code units of a string: a high surrogate followed
\* by a low one is one character and both are kept; every other code unit
\* goes through escapeCharacter
escape(s) ==
    LET paired(i) ==
            \/ i < Len(s) /\ isSurrogate(s[i], HighSurrogates) /\ isSurrogate(s[i + 1], LowSurrogates)
            \/ i > 1 /\ isSurrogate(s[i - 1], HighSurrogates) /\ isSurrogate(s[i], LowSurrogates)
    IN  concat([i \in 1..Len(s) |-> IF paired(i) THEN <<s[i]>> ELSE escapeCharacter(s[i])],
               1, Len(s))

\* JSON.stringify of a string: its escaped code units in double quotes
quote(s) == <<"\"">> \o escape(s) \o <<"\"">>

\* gap spaces
RECURSIVE indent(_)
indent(gap) == IF gap = 0 THEN <<>> ELSE <<" ">> \o indent(gap - 1)

\* the members of an array or of an object, one a line, at the given
\* indentation, with a comma between two of them
RECURSIVE members(_, _)
members(lines, gap) ==
    IF lines = <<>> THEN <<>>
    ELSE <<"\n">> \o indent(gap) \o Head(lines)
             \o (IF Len(lines) > 1 THEN <<",">> ELSE <<>>) \o members(Tail(lines), gap)

\* JSON.stringify(value, null, 2) of a value that is a member of an object
stringifyValue(v) ==
    IF v.type = "string" THEN quote(v.val[1])
    ELSE IF v.val = <<>> THEN <<"[", "]">>
    ELSE <<"[">> \o members([i \in 1..Len(v.val) |-> quote(v.val[i])], 4)
             \o <<"\n">> \o indent(2) \o <<"]">>

\* JSON.stringify(details, null, 2) of an object given as the list of its
\* properties <<key, value>>: a property whose value is undefined is left
\* out
stringify(details) ==
    LET defined == SelectSeq(details, LAMBDA property : property[2].type # "undefined")
    IN  IF defined = <<>> THEN <<"{", "}">>
        ELSE <<"{">> \o members([i \in 1..Len(defined) |->
                                    quote(defined[i][1]) \o <<":", " ">> \o stringifyValue(defined[i][2])], 2)
                 \o <<"\n", "}">>

\* "<cross mark>"
CrossMark == <<"(U+274C)">>
MsgTest == <<" ", "T", "e", "s", "t", " ">>
MsgFailedAtStep == <<" ", "f", "a", "i", "l", "e", "d", " ", "a", "t", " ", "s", "t", "e", "p", ":", " ">>

\* lines 566-571: the template literal, trimmed
createErrorMessage(testId, step, details) ==
    trim(<<"\n">> \o CrossMark \o MsgTest \o StringOf(testId) \o MsgFailedAtStep \o step
             \o <<"\n">> \o stringify(details) \o <<"\n", " ", " ">>)

----------------------------------------------------------------------------
(* The state machine *)

\* the run of a test: pc is the call it awaits or the statement it is at,
\* testCase the object of testData.testCases it runs on, document what the
\* application shows (nothing yet, the login form, the dashboard, or the
\* board of a project), log the lines of logProgress, reported what was
\* written to console.error, status and error how it ended; entered (the
\* body was called), setup (the calls of the fixture that returned) and
\* done (the steps that completed) keep the history the properties are
\* stated on
NoTest ==
    [pc |-> "idle", testCase |-> [f \in {} |-> <<>>], document |-> "blank",
     entered |-> FALSE, setup |-> <<>>, log |-> <<>>, done |-> <<>>, reported |-> <<>>,
     status |-> "none", error |-> <<>>]

\* the call made on a page object: while it is awaiting, kind is "running",
\* i is the position it is at, at the call it awaits, and value what it has
\* built so far; name is the name of the error it threw; after tells
\* whether an earlier call was made and the page changed since
NoCall ==
    [op |-> "none", taskName |-> <<>>, expected |-> <<>>, after |-> "none",
     kind |-> "none", value |-> <<>>, name |-> <<>>, i |-> 0, at |-> "none"]

Call(op, taskName, expected, outcome) ==
    [op |-> op, taskName |-> taskName, expected |-> expected,
     after |-> IF ret.op = "none" THEN "first" ELSE IF stale THEN "changed" ELSE "same",
     kind |-> outcome.kind, value |-> outcome.value,
     name |-> IF outcome.kind = "throw" THEN outcome.name ELSE <<>>,
     i |-> 0, at |-> "none"]

\* the call is at its first await
Running(op, taskName, expected, at) ==
    [Call(op, taskName, expected, [kind |-> "running", value |-> <<>>]) EXCEPT !.i = 1, !.at = at]

\* the test awaits each call: none is made while another is running
Idle == ret.kind # "running"

InsertAt(s, i, e) == SubSeq(s, 1, i) \o <<e>> \o SubSeq(s, i + 1, Len(s))

\* the application renders one more element into the document
InsertElement(pool, max) ==
    /\ Len(page) < max
    /\ \E e \in pool, i \in 0..Len(page) : page' = InsertAt(page, i, e)
    /\ stale' = (ret.op # "none")
    /\ UNCHANGED <<COLUMNS, ret, test>>

\* a lookup that answers from the last lookup of the same task, without
\* reading the page
GetTaskColumnCall_Cached(taskName) ==
    /\ Idle
    /\ ret' = IF ret.op = "getTaskColumn" /\ ret.taskName = taskName
              THEN [ret EXCEPT !.after = IF stale THEN "changed" ELSE "same"]
              ELSE Running("getTaskColumn", taskName, <<>>, "textContent")
    /\ stale' = FALSE
    /\ UNCHANGED <<page, COLUMNS, test>>

\* dashboardPage.getTaskColumn(taskName) is called: lines 97-99, up to its
\* one await; nothing is read yet
GetTaskColumnCall(taskName) ==
    /\ Idle
    /\ ret' = Running("getTaskColumn", taskName, <<>>, "textContent")
    /\ stale' = FALSE
    /\ UNCHANGED <<page, COLUMNS, test>>

\* lines 99-127: await this.page.textContent('body') resolves with the text
\* of the page as it is now, and the loop over the columns, which awaits
\* nothing, returns the column or throws
ReadTextContent ==
    /\ ret.kind = "running" /\ ret.op = "getTaskColumn" /\ ret.at = "textContent"
    /\ LET column == getTaskColumn(page, COLUMNS, ret.taskName)
       IN  ret' = [ret EXCEPT !.kind = column.kind, !.value = column.value,
                              !.name = IF column.kind = "throw" THEN column.name ELSE <<>>,
                              !.i = 0, !.at = "none"]
    /\ UNCHANGED <<page, COLUMNS, stale, test>>

\* dashboardPage.getTaskTags(taskName) is called: lines 136-144, up to the
\* first await
GetTaskTagsCall(taskName) ==
    /\ Idle
    /\ ret' = Running("getTaskTags", taskName, <<>>, "count")
    /\ stale' = FALSE
    /\ UNCHANGED <<page, COLUMNS, test>>

\* lines 144-150: await tagLocator.count() resolves on the page as it is
\* now, the tag is pushed when it was found, and the loop goes on or the
\* method returns foundTags
CountTag ==
    /\ ret.kind = "running" /\ ret.op = "getTaskTags"
    /\ LET tag == possibleTags[ret.i]
           foundTags == IF tagFound(page, tag) THEN Append(ret.value, tag) ELSE ret.value
       IN  ret' = IF ret.i < Len(possibleTags)
                  THEN [ret EXCEPT !.value = foundTags, !.i = ret.i + 1]
                  ELSE [ret EXCEPT !.value = foundTags, !.i = 0, !.at = "none", !.kind = "return"]
    /\ UNCHANGED <<page, COLUMNS, stale, test>>

\* lines 190-199, up to the first await: the call as it is suspended at the
\* wait for its first tag, or its result when no tag is expected
verifyTaskTagsStart(taskName, expectedTags) ==
    IF expectedTags = <<>>
    THEN Call("verifyTaskTags", taskName, expectedTags,
              Return(verifyTaskTagsResult(taskName, expectedTags, <<>>)))
    ELSE Running("verifyTaskTags", taskName, expectedTags, "waitFor")

\* dashboardPage.verifyTaskTags(taskName, expectedTags) is called: lines
\* 190-199, up to the first await
VerifyTaskTagsCall(taskName, expectedTags) ==
    /\ Idle
    /\ ret' = verifyTaskTagsStart(taskName, expectedTags)
    /\ stale' = FALSE
    /\ UNCHANGED <<page, COLUMNS, test>>

\* the call of verifyTaskTags awaits the given call of its try block
Awaiting(at) == ret.kind = "running" /\ ret.op = "verifyTaskTags" /\ ret.at = at

\* the loop of lines 194-211 goes on to the next tag with the given missing
\* list, or the method returns its result, lines 213-223
NextTag(missing) ==
    IF ret.i < Len(ret.expected)
    THEN [ret EXCEPT !.value = missing, !.i = ret.i + 1, !.at = "waitFor"]
    ELSE [ret EXCEPT !.value = verifyTaskTagsResult(ret.taskName, ret.expected, missing),
                     !.i = 0, !.at = "none", !.kind = "return"]

\* one awaited call of the try block settles: when it resolves the method
\* awaits the next one, when it throws the catch of lines 208-210 pushes
\* the tag on missing
Settle(resolves, next) ==
    /\ ret' = IF resolves THEN [ret EXCEPT !.at = next]
              ELSE NextTag(Append(ret.value, ret.expected[ret.i]))
    /\ UNCHANGED <<page, COLUMNS, stale, test>>

\* line 199: await tagLocator.waitFor({ state: 'visible', timeout: 5000 })
WaitForTag ==
    /\ Awaiting("waitFor")
    /\ Settle(firstIsVisible(getByText(page, ret.expected[ret.i])), "scrollIntoViewIfNeeded")

\* line 202: await tagLocator.scrollIntoViewIfNeeded()
ScrollToTag ==
    /\ Awaiting("scrollIntoViewIfNeeded")
    /\ Settle(scrollIntoViewIfNeeded(getByText(page, ret.expected[ret.i])), "hover")

\* line 205: await tagLocator.hover()
HoverTag ==
    /\ Awaiting("hover")
    /\ Settle(hover(getByText(page, ret.expected[ret.i])), "waitForTimeout")

\* line 206: await this.page.waitForTimeout(300) resolves
PauseTag ==
    /\ Awaiting("waitForTimeout")
    /\ ret' = NextTag(ret.value)
    /\ UNCHANGED <<page, COLUMNS, stale, test>>

(* Column lookups on boards of headers and cards *)

InitColumn ==
    /\ page \in Boards(ColumnElements, MaxElems) \cup {ScenarioPage}
    /\ COLUMNS = InitialColumns
    /\ ret = NoCall
    /\ stale = FALSE
    /\ test = NoTest

LookupColumn == \E taskName \in TaskNames : GetTaskColumnCall(taskName)

NextColumn == LookupColumn \/ ReadTextContent

SpecColumn == InitColumn /\ [][NextColumn]_vars

(* Tag lookups on boards of cards and tag labels *)

InitTags ==
    /\ page \in Boards(TagElements, MaxTagElems)
    /\ COLUMNS = InitialColumns
    /\ ret = NoCall
    /\ stale = FALSE
    /\ test = NoTest

RenderTagElement == InsertElement(TagElements, MaxTagElems)

LookupTags == \E taskName \in TagTaskNames : GetTaskTagsCall(taskName)

VerifyTags == \E taskName \in TagTaskNames, expectedTags \in ExpectedTagLists :
                  VerifyTaskTagsCall(taskName, expectedTags)

NextTags ==
    \/ RenderTagElement
    \/ LookupTags \/ CountTag
    \/ VerifyTags \/ WaitForTag \/ ScrollToTag \/ HoverTag \/ PauseTag

SpecTags == InitTags /\ [][NextTags]_vars

(* Every operation, on small boards of any element *)

Init ==
    /\ page \in Boards(BoardElements, MaxBoardElems) \cup {ScenarioPage}
    /\ COLUMNS = InitialColumns
    /\ ret = NoCall
    /\ stale = FALSE
    /\ test = NoTest

RenderElement == InsertElement(BoardElements, MaxBoardElems)

Next ==
    \/ RenderElement
    \/ LookupColumn \/ ReadTextContent
    \/ LookupTags \/ CountTag
    \/ VerifyTags \/ WaitForTag \/ ScrollToTag \/ HoverTag \/ PauseTag

Spec == Init /\ [][Next]_vars

(* One test of tests/taskVerification.spec.js, with its fixtures *)

WebApplication == <<"W", "e", "b", " ", "A", "p", "p", "l", "i", "c", "a", "t", "i", "o", "n">>
TC002 == <<"T", "C", "0", "0", "2">>
TC007 == <<"T", "C", "0", "0", "7">>
BugFix == <<"B", "u", "g", " ", "f", "i", "x">>
MsgShouldBeVisible == <<"'", " ", "s", "h", "o", "u", "l", "d", " ", "b", "e", " ", "v", "i", "s", "i", "b", "l", "e", " ", "o", "n", " ", "t", "h", "e", " ", "p", "a", "g", "e">>
MsgNavigating == <<"N", "a", "v", "i", "g", "a", "t", "i", "n", "g", " ", "t", "o", " ", "p", "r", "o", "j", "e", "c", "t", ":", " ">>
MsgVerifyingVisibility == <<"V", "e", "r", "i", "f", "y", "i", "n", "g", " ", "t", "a", "s", "k", " ", "v", "i", "s", "i", "b", "i", "l", "i", "t", "y", ":", " ">>
MsgVerifyingColumn == <<"V", "e", "r", "i", "f", "y", "i", "n", "g", " ", "c", "o", "l", "u", "m", "n", ":", " ">>
MsgVerifyingTags == <<"V", "e", "r", "i", "f", "y", "i", "n", "g", " ", "t", "a", "g", "s", ":", " ", "[">>
ExpectDetail == <<"e", "x", "p", "e", "c", "t", "(", "r", "e", "c", "e", "i", "v", "e", "d", ")", ".", "t", "o", "B", "e", "(", "e", "x", "p", "e", "c", "t", "e", "d", ")">>

\* "<check mark> All verifications passed"
MsgAllPassed == <<"(U+2705)">> \o <<" ", "A", "l", "l", " ", "v", "e", "r", "i", "f", "i", "c", "a", "t", "i", "o", "n", "s", " ", "p", "a", "s", "s", "e", "d">>

\* an object of testData.testCases
TestCase(testId, description, project, taskName, expectedColumn, expectedTags) ==
    [f \in Range(requiredFields) |->
        CASE f = TestIdField -> testId
          [] f = DescriptionField -> description
          [] f = ProjectField -> project
          [] f = TaskNameField -> taskName
          [] f = ExpectedColumnField -> expectedColumn
          [] f = ExpectedTagsField -> expectedTags]

TC == <<"T", "C">>
Nine == <<"9">>

\* the test cases explored: three complete ones, one whose testId and one
\* whose expectedColumn is an array, the case of the quick start guide,
\* which has no description, and cases with other fields missing, empty or
\* of the wrong type; project and taskName are strings or missing
TestCases ==
    { TestCase(Str(TC002), Str(BugFix), Str(WebApplication), Str(FixBug), Str(ToDo), Arr(<<Bug>>)),
      TestCase(Str(TC002), Str(BugFix), Str(WebApplication), Str(FixBug), Str(Done), Arr(<<Bug>>)),
      TestCase(Str(TC002), Str(BugFix), Str(WebApplication), Str(FixBug), Str(ToDo), Arr(<<Bug, Feature>>)),
      TestCase(Arr(<<TC, Nine>>), Str(BugFix), Str(WebApplication), Str(FixBug), Str(ToDo), Arr(<<Bug>>)),
      TestCase(Str(TC002), Str(BugFix), Str(WebApplication), Str(FixBug), Arr(<<ToDo>>), Arr(<<Bug>>)),
      TestCase(Str(TC007), Undefined, Str(WebApplication), Str(FixBug), Str(ToDo), Arr(<<Bug>>)),
      TestCase(Undefined, Undefined, Str(WebApplication), Str(FixBug), Str(ToDo), Arr(<<Bug>>)),
      TestCase(Str(TC002), Str(BugFix), Str(WebApplication), Str(<<>>), Str(ToDo), Arr(<<Bug>>)),
      TestCase(Str(TC002), Str(BugFix), Str(WebApplication), Str(FixBug), Str(ToDo), Undefined),
      TestCase(Str(TC002), Str(BugFix), Str(WebApplication), Str(FixBug), Str(ToDo), Str(Bug)),
      TestCase(Str(TC002), Str(BugFix), Str(WebApplication), Str(FixBug), Str(ToDo), Arr(<<>>)) }

\* what the application renders into the login page: the input of the user
\* name, the input of the password, the same input disabled, the button
\* that submits the form, and the same button under another element; a form
\* holds each control once at most
LoginElements ==
    { Input("text"), Input("password"), DisabledInput("password"),
      Button(SignIn), CoveredButton(SignIn) }

\* what the application renders into the dashboard: its header, the link of
\* the project, the same link under another element, and the same link
\* never at rest
DashboardElements ==
    { El(Projects), El(WebApplication), Covered(WebApplication), Unstable(WebApplication) }

\* the elements the application renders into the document it shows
Rendered(document) ==
    CASE document = "login" -> LoginElements
      [] document = "dashboard" -> DashboardElements
      [] document = "board" -> TestElements
      [] OTHER -> {}

\* the fields of the test case, as the template literals of the test body
\* write them, and the values handed to the calls
testId == StringOf(test.testCase[TestIdField])
project == StringOf(test.testCase[ProjectField])
taskName == StringOf(test.testCase[TaskNameField])
expectedColumn == test.testCase[ExpectedColumnField]
expectedTags == test.testCase[ExpectedTagsField].val

\* expect(value, message).toBe(true)
expectToBeTrue(value, message) ==
    IF value THEN Return(<<>>) ELSE Throw(message \o ExpectDetail)

ErrorKey == <<"e", "r", "r", "o", "r">>

\* the lines of the stack that follow its first one: the frames of the
\* calls, which the engine writes
StackFrames == <<"\n", " ", " ", " ", " ", "a", "t", " ", ".", ".", ".">>

\* error.stack: the name and the message of the error, then the frames
stack(error) == error.name \o <<":", " ">> \o error.value \o StackFrames

\* lines 64-70: the fields of the test case as they are, the message and
\* the stack of the error
errorDetails(error) ==
    << << <<"t", "e", "s", "t", "C", "a", "s", "e">>, test.testCase[TestIdField]>>,
       <<ProjectField, test.testCase[ProjectField]>>,
       << <<"t", "a", "s", "k">>, test.testCase[TaskNameField]>>,
       <<ErrorKey, Str(error.value)>>,
       << <<"s", "t", "a", "c", "k">>, Str(stack(error))>> >>

\* the test ends with an error thrown outside the try block of the body
Failed(error) ==
    [test EXCEPT !.pc = "ended", !.status = "failed", !.error = error.value]

\* lines 62-74: the catch block writes the report to console.error and
\* throws the error again
Caught(error) ==
    [test EXCEPT !.pc = "ended", !.status = "failed", !.error = error.value,
                 !.reported = Append(@, createErrorMessage(test.testCase[TestIdField], Execution,
                                                           errorDetails(error)))]

\* a step of the body completed and the next one starts with its line of
\* the log
Completed(step, next, message) ==
    [test EXCEPT !.pc = next, !.done = Append(@, step),
                 !.log = Append(@, logProgress(testId, message))]

----------------------------------------------------------------------------
(* The awaited calls of the page objects in a test run *)

Await(at, on) == [at |-> at, on |-> on]

\* the calls a method awaits, in the order of its statements, each with
\* the locator, the load state or the time it is made on: LoginPage.navigate
\* (lines 23-25, part_000 16-28), login (32-40, part_000 45-60), isLoggedIn
\* (46-50, part_000 67-74), DashboardPage.navigateToProject (76-80),
\* isTaskVisible (158-161) and verifyTaskColumn (169-170, 99)
Script(op) ==
    CASE op = "navigate" ->
             << Await("goto", "/"),
                Await("waitForLoadState", "networkidle"),
                Await("waitForLoadState", "domcontentloaded") >>
      [] op = "login" ->
             << Await("waitFor", "emailInput"), Await("clear", "emailInput"),
                Await("fill", "emailInput"),
                Await("waitFor", "passwordInput"), Await("clear", "passwordInput"),
                Await("fill", "passwordInput"),
                Await("waitFor", "loginButton"), Await("click", "loginButton"),
                Await("waitForTimeout", "500"),
                Await("waitForLoadState", "networkidle"),
                Await("waitForLoadState", "domcontentloaded"),
                Await("waitForTimeout", "2000") >>
      [] op = "isLoggedIn" -> << Await("isVisible", "projectsHeader") >>
      [] op = "navigateToProject" ->
             << Await("waitFor", "projectLink"), Await("click", "projectLink"),
                Await("waitForTimeout", "500"), Await("waitForTimeout", "1500") >>
      [] op = "isTaskVisible" -> << Await("isVisible", "taskCard") >>
      [] op = "verifyTaskColumn" -> << Await("textContent", "body") >>

Scripted ==
    {"navigate", "login", "isLoggedIn", "navigateToProject", "isTaskVisible", "verifyTaskColumn"}

\* the method is called and runs up to its first await
Start(op, text, expected) == Running(op, text, expected, Script(op)[1].at)

\* a call of the test run is suspended at the given awaited call
Suspended(at) ==
    /\ test.pc \notin {"idle", "ended"}
    /\ ret.op \in Scripted
    /\ ret.kind = "running"
    /\ ret.at = at

\* the call awaited ended, with a value or an error
Ended(op) == test.pc = op /\ ret.op = op /\ ret.kind \in {"return", "throw"}

\* the error the call ended with
Error == [kind |-> "throw", value |-> ret.value, name |-> ret.name]

\* the elements the awaited call is made on, on the page as it is now
Target ==
    LET on == Script(ret.op)[ret.i].on
    IN  CASE on = "emailInput" -> emailInput(page)
          [] on = "passwordInput" -> passwordInput(page)
          [] on = "loginButton" -> loginButton(page)
          [] on = "projectsHeader" -> getByText(page, Projects)
          [] on = "projectLink" -> first(getByText(page, ret.taskName))
          [] on = "taskCard" -> first(getByText(page, ret.taskName))

\* the awaited call resolves: the method goes on to its next await, or
\* returns undefined after its last one
Resolved ==
    IF ret.i < Len(Script(ret.op))
    THEN [ret EXCEPT !.i = ret.i + 1, !.at = Script(ret.op)[ret.i + 1].at]
    ELSE [ret EXCEPT !.kind = "return", !.value = <<>>, !.i = 0, !.at = "none"]

\* the awaited call rejects: the error leaves the method, which catches
\* nothing
Rejected(error) ==
    [ret EXCEPT !.kind = "throw", !.value = error.value, !.name = error.name]

Settled(outcome) == IF outcome.kind = "throw" THEN Rejected(outcome) ELSE Resolved

\* part_000 line 26, await this.page.goto(url): the browser opens the
\* document of the application, which the application has yet to render,
\* or the navigation times out
GotoAwait ==
    /\ Suspended("goto")
    /\ \E loaded \in BOOLEAN :
           IF loaded
           THEN /\ ret' = Resolved
                /\ test' = [test EXCEPT !.document = "login"]
           ELSE /\ ret' = Rejected(TimeoutError(PageGoto, NavigationTimeout))
                /\ test' = test
    /\ UNCHANGED <<page, COLUMNS, stale>>

\* part_000 lines 17-18, await this.page.waitForLoadState(state): the state
\* is reached, or not within the navigation timeout
WaitForLoadStateAwait ==
    /\ Suspended("waitForLoadState")
    /\ \E reached \in BOOLEAN :
           ret' = IF reached THEN Resolved
                  ELSE Rejected(TimeoutError(PageWaitForLoadState, NavigationTimeout))
    /\ UNCHANGED <<page, COLUMNS, stale, test>>

\* part_000 lines 46 and 57, await locator.waitFor({ state: 'visible',
\* timeout: 10000 })
WaitForAwait ==
    /\ Suspended("waitFor")
    /\ ret' = Settled(locatorWaitFor(Target))
    /\ UNCHANGED <<page, COLUMNS, stale, test>>

\* part_000 line 58, await locator.clear()
ClearAwait ==
    /\ Suspended("clear")
    /\ ret' = Settled(locatorClear(Target))
    /\ UNCHANGED <<page, COLUMNS, stale, test>>

\* part_000 line 59, await locator.fill(text)
FillAwait ==
    /\ Suspended("fill")
    /\ ret' = Settled(locatorFill(Target))
    /\ UNCHANGED <<page, COLUMNS, stale, test>>

\* part_000 line 47, await locator.click(): the click on the button of the
\* login form submits it, and the application goes on to the dashboard or
\* stays on the form; the click on the link of a project opens its board;
\* the application has yet to render the document it goes on to
ClickAwait ==
    /\ Suspended("click")
    /\ LET clicked == locatorClick(Target)
       IN  /\ ret' = Settled(clicked)
           /\ IF clicked.kind = "throw"
              THEN UNCHANGED <<page, stale, test>>
              ELSE \E document \in IF ret.op = "login" THEN {"login", "dashboard"} ELSE {"board"} :
                       /\ test' = [test EXCEPT !.document = document]
                       /\ page' = IF document = test.document THEN page ELSE <<>>
                       /\ stale' = (stale \/ page' # page)
    /\ UNCHANGED COLUMNS

\* part_000 line 48, LoginPage.js lines 39 and 79,
\* await this.page.waitForTimeout(ms)
WaitForTimeoutAwait ==
    /\ Suspended("waitForTimeout")
    /\ ret' = Resolved
    /\ UNCHANGED <<page, COLUMNS, stale, test>>

\* part_000 lines 67-74, BasePage.isVisible: the wait of 5000 ms resolves
\* and the method returns true, or it throws and the method returns false
IsVisibleAwait ==
    /\ Suspended("isVisible")
    /\ ret' = [ret EXCEPT !.kind = "return", !.i = 0, !.at = "none",
                          !.value = IF ret.op = "isLoggedIn" THEN isLoggedIn(page)
                                    ELSE isTaskVisible(page, ret.taskName)]
    /\ UNCHANGED <<page, COLUMNS, stale, test>>

\* LoginPage.js line 99, await this.page.textContent('body'), and the rest
\* of getTaskColumn and of verifyTaskColumn, which await nothing more
TextContentAwait ==
    /\ Suspended("textContent")
    /\ LET columnResult == verifyTaskColumn(page, COLUMNS, ret.taskName, ret.expected)
       IN  ret' = [ret EXCEPT !.kind = columnResult.kind, !.value = columnResult.value,
                              !.name = IF columnResult.kind = "throw" THEN columnResult.name ELSE <<>>,
                              !.i = 0, !.at = "none"]
    /\ UNCHANGED <<page, COLUMNS, stale, test>>

\* the application renders one more element into the document it shows,
\* while the test runs
RenderTestElement ==
    /\ test.pc \notin {"idle", "ended"}
    /\ InsertElement({ e \in Rendered(test.document) :
                           e.control = "none"
                               \/ \A j \in 1..Len(page) : page[j].control # e.control },
                     MaxTestElems)

----------------------------------------------------------------------------
(* The fixtures and the body of the test *)

\* part_001 lines 15-19, fixture authenticatedPage: a LoginPage is made of
\* the page and navigate() is called
AuthenticatedPageFixture ==
    /\ test.pc = "fixture"
    /\ ret' = Start("navigate", <<>>, <<>>)
    /\ test' = [test EXCEPT !.pc = "navigate"]
    /\ stale' = FALSE
    /\ UNCHANGED <<page, COLUMNS>>

\* lines 19-23: navigate() ended; its error ends the test, otherwise
\* login(email, password) is called
LoginCall ==
    /\ Ended("navigate")
    /\ IF ret.kind = "throw"
       THEN /\ test' = Failed(Error)
            /\ UNCHANGED <<ret, stale>>
       ELSE /\ test' = [test EXCEPT !.pc = "login", !.setup = Append(@, "navigate")]
            /\ ret' = Start("login", <<>>, <<>>)
            /\ stale' = FALSE
    /\ UNCHANGED <<page, COLUMNS>>

\* lines 20-26: login() ended; its error ends the test, otherwise
\* isLoggedIn() is called
IsLoggedInCall ==
    /\ Ended("login")
    /\ IF ret.kind = "throw"
       THEN /\ test' = Failed(Error)
            /\ UNCHANGED <<ret, stale>>
       ELSE /\ test' = [test EXCEPT !.pc = "isLoggedIn", !.setup = Append(@, "login")]
            /\ ret' = Start("isLoggedIn", <<>>, <<>>)
            /\ stale' = FALSE
    /\ UNCHANGED <<page, COLUMNS>>

\* lines 26-30 and 36-38: isLoggedIn() returned; expect(isLoggedIn)
\* .toBe(true) ends the test or the page is handed on, a DashboardPage is
\* made of it and handed to the body of the test
UsePage ==
    /\ Ended("isLoggedIn")
    /\ LET check == expectToBeTrue(ret.value, <<>>)
       IN  test' = IF check.kind = "throw" THEN Failed(check)
                   ELSE [test EXCEPT !.pc = "body", !.setup = Append(@, "isLoggedIn")]
    /\ UNCHANGED <<page, COLUMNS, ret, stale>>

\* line 26: validateTestCase(testCase), before the try block
ValidateStep ==
    /\ test.pc = "body"
    /\ LET valid == validateTestCase(test.testCase)
       IN  test' = IF valid.kind = "throw"
                   THEN [Failed(valid) EXCEPT !.entered = TRUE]
                   ELSE [test EXCEPT !.pc = "try", !.entered = TRUE]
    /\ UNCHANGED <<page, COLUMNS, ret, stale>>

\* lines 29-31, STEP 1: the line of the log and the call of
\* navigateToProject
NavigateStep ==
    /\ test.pc = "try"
    /\ test' = [test EXCEPT !.pc = "navigateToProject",
                            !.log = Append(@, logProgress(testId, MsgNavigating \o project))]
    /\ ret' = Start("navigateToProject", project, <<>>)
    /\ stale' = FALSE
    /\ UNCHANGED <<page, COLUMNS>>

\* lines 31-35: navigateToProject ended; its error goes to the catch block,
\* otherwise STEP 2 starts: the line of the log and the call of
\* isTaskVisible
VisibleStep ==
    /\ Ended("navigateToProject")
    /\ IF ret.kind = "throw"
       THEN /\ test' = Caught(Error)
            /\ UNCHANGED <<ret, stale>>
       ELSE /\ test' = Completed("navigate", "isTaskVisible", MsgVerifyingVisibility \o taskName)
            /\ ret' = Start("isTaskVisible", taskName, <<>>)
            /\ stale' = FALSE
    /\ UNCHANGED <<page, COLUMNS>>

\* lines 35-46: isTaskVisible returned; the assertion of lines 37-39
\* throws into the catch block, or STEP 3 starts: the line of the log and
\* the call of verifyTaskColumn with the expected column as it is
ColumnStep ==
    /\ Ended("isTaskVisible")
    /\ LET check == expectToBeTrue(ret.value, MsgTask \o taskName \o MsgShouldBeVisible)
       IN  IF check.kind = "throw"
           THEN /\ test' = Caught(check)
                /\ UNCHANGED <<ret, stale>>
           ELSE /\ test' = Completed("visible", "verifyTaskColumn",
                                     MsgVerifyingColumn \o StringOf(expectedColumn))
                /\ ret' = Start("verifyTaskColumn", taskName, expectedColumn)
                /\ stale' = FALSE
    /\ UNCHANGED <<page, COLUMNS>>

\* lines 43-55: verifyTaskColumn ended; its error or the assertion of line
\* 48 goes to the catch block, or STEP 4 starts: the line of the log and
\* the call of verifyTaskTags
TagsStep ==
    /\ Ended("verifyTaskColumn")
    /\ LET check == IF ret.kind = "throw" THEN Error
                    ELSE expectToBeTrue(ret.value.success, ret.value.message)
       IN  IF check.kind = "throw"
           THEN /\ test' = Caught(check)
                /\ UNCHANGED <<ret, stale>>
           ELSE /\ test' = Completed("column", "verifyTaskTags",
                                     MsgVerifyingTags \o join(expectedTags, CommaSpace) \o MsgClose)
                /\ ret' = verifyTaskTagsStart(taskName, expectedTags)
                /\ stale' = FALSE
    /\ UNCHANGED <<page, COLUMNS>>

\* lines 52-60: verifyTaskTags returned; the assertion of line 57 throws
\* into the catch block, or the line of success is logged and the test
\* ends passed
PassedStep ==
    /\ test.pc = "verifyTaskTags" /\ ret.op = "verifyTaskTags" /\ ret.kind = "return"
    /\ LET check == expectToBeTrue(ret.value.success, ret.value.message)
       IN  test' = IF check.kind = "throw" THEN Caught(check)
                   ELSE [Completed("tags", "ended", MsgAllPassed) EXCEPT !.status = "passed"]
    /\ UNCHANGED <<page, COLUMNS, ret, stale>>

\* testData.testCases.forEach: the runner starts the test of one test case
\* on a new page
InitTest ==
    /\ page = <<>>
    /\ COLUMNS = InitialColumns
    /\ ret = NoCall
    /\ stale = FALSE
    /\ \E testCase \in TestCases :
           test = [NoTest EXCEPT !.pc = "fixture", !.testCase = testCase, !.status = "running"]

NextTest ==
    \/ RenderTestElement
    \/ AuthenticatedPageFixture \/ LoginCall \/ IsLoggedInCall \/ UsePage
    \/ GotoAwait \/ WaitForLoadStateAwait \/ WaitForAwait \/ ClearAwait \/ FillAwait
    \/ ClickAwait \/ WaitForTimeoutAwait \/ IsVisibleAwait \/ TextContentAwait
    \/ ValidateStep \/ NavigateStep \/ VisibleStep \/ ColumnStep \/ TagsStep \/ PassedStep
    \/ WaitForTag \/ ScrollToTag \/ HoverTag \/ PauseTag

SpecTest == InitTest /\ [][NextTest]_vars

----------------------------------------------------------------------------
(* The board as the specification describes it: occurrences and spans,     *)
(* stated on the text alone, independently of the lookup's loops           *)

FixedColumns == Range(InitialColumns)

SetMin(S) == CHOOSE x \in S : \A y \in S : x <= y

\* the JS indices at which t occurs in b
Occurrences(b, t) == { k \in 0..(Len(b) - Len(t)) : SubSeq(b, k + 1, k + Len(t)) = t }

\* the header marker of column c: its name, a blank, an opening parenthesis
HeaderMarker(c) == c \o <<" ", "(">>

HasMarker(b, c) == Occurrences(b, HeaderMarker(c)) # {}

SpanStart(b, c) == SetMin(Occurrences(b, HeaderMarker(c)))

OtherMarkersAfter(b, c) ==
    UNION { { k \in Occurrences(b, HeaderMarker(d)) : k > SpanStart(b, c) } : d \in FixedColumns \ {c} }

SpanEnd(b, c) ==
    IF OtherMarkersAfter(b, c) = {} THEN Len(b) ELSE SetMin(OtherMarkersAfter(b, c))

\* k lies in the span [start, end) of column c
InSpan(b, c, k) == HasMarker(b, c) /\ SpanStart(b, c) <= k /\ k < SpanEnd(b, c)

\* k lies in the span of column c, after the index at which c's marker starts
InSpanAfterStart(b, c, k) == HasMarker(b, c) /\ SpanStart(b, c) < k /\ k < SpanEnd(b, c)

\* the column of S that comes first in the fixed order
FirstInOrder(S) == InitialColumns[SetMin({ i \in 1..Len(InitialColumns) : InitialColumns[i] \in S })]

\* ret is the outcome of getTaskColumn on the page as it is now
Looked == ret.op = "getTaskColumn" /\ ret.kind # "running" /\ ~stale

Returned(c) == ret.kind = "return" /\ ret.value = c

FailedNotFound == ret.kind = "throw" /\ ret.value = ErrPrefix \o ret.taskName

----------------------------------------------------------------------------
(* Claims *)

\* C1 as stated: a task name that occurs exactly once, at an index inside
\* exactly one column's span [start, end), is reported in that column.
C1_AsStated ==
    Looked =>
        LET b == textContent(page)
            t == ret.taskName
        IN  \A k \in Occurrences(b, t), c \in FixedColumns :
                ( /\ Occurrences(b, t) = {k}
                  /\ { d \in FixedColumns : InSpan(b, d, k) } = {c} )
                => Returned(c)

\* C1 (amended): a task name that occurs exactly once, at an index inside
\* exactly one column's span and strictly after the index at which that
\* column's header marker starts, is reported in that column.
C1_UniqueOccurrenceInSpan ==
    Looked =>
        LET b == textContent(page)
            t == ret.taskName
        IN  \A k \in Occurrences(b, t), c \in FixedColumns :
                ( /\ Occurrences(b, t) = {k}
                  /\ { d \in FixedColumns : InSpanAfterStart(b, d, k) } = {c} )
                => Returned(c)

\* C1 witness: a lookup of a task that occurs once, in the span of a column
\* that is followed by another column's header, answered with that column.
C1_Witness ==
    /\ Looked
    /\ LET b == textContent(page)
           t == ret.taskName
       IN  \E k \in Occurrences(b, t), c \in FixedColumns :
               /\ Occurrences(b, t) = {k}
               /\ InSpanAfterStart(b, c, k)
               /\ SpanEnd(b, c) < Len(b)
               /\ Returned(c)

\* C2: a task name that occurs nowhere in the board text makes the lookup
\* fail, with the error message that ends with the task name.
C2_AbsentTaskFails ==
    (Looked /\ Occurrences(textContent(page), ret.taskName) = {}) => FailedNotFound

\* C2 witness: a failed lookup of an absent task on a board that has headers.
C2_Witness ==
    /\ Looked
    /\ Occurrences(textContent(page), ret.taskName) = {}
    /\ \E c \in FixedColumns : HasMarker(textContent(page), c)
    /\ FailedNotFound

\* C3: a task name that occurs in the text, but with no occurrence inside
\* any column's span, makes the lookup fail with the not-found error.
C3_OutsideEverySpanFails ==
    LET b == textContent(page)
        t == ret.taskName
    IN  ( /\ Looked
          /\ Occurrences(b, t) # {}
          /\ \A k \in Occurrences(b, t), c \in FixedColumns : ~InSpan(b, c, k) )
        => FailedNotFound

\* C3 witness: the task occurs only before the first header of a board that
\* has one, and the lookup failed.
C3_Witness ==
    LET b == textContent(page)
        t == ret.taskName
    IN  /\ Looked
        /\ Occurrences(b, t) # {}
        /\ \E c \in FixedColumns : HasMarker(b, c)
        /\ \A k \in Occurrences(b, t), c \in FixedColumns : ~InSpan(b, c, k)
        /\ FailedNotFound

\* C4 as stated: when the task name occurs in the spans of more than one
\* column (each time after the start of the column's header), the lookup
\* answers the first of those columns in the fixed order.
C4_FirstInFixedOrder ==
    Looked =>
        LET b == textContent(page)
            t == ret.taskName
            holders == { c \in FixedColumns : \E k \in Occurrences(b, t) : InSpanAfterStart(b, c, k) }
        IN  Cardinality(holders) > 1 => Returned(FirstInOrder(holders))

\* C5 as stated: a task name whose one occurrence starts in a column's span
\* [start, end) and ends where another column's header marker starts is
\* reported in the column of its start index.
C5_AsStated ==
    Looked =>
        LET b == textContent(page)
            t == ret.taskName
        IN  \A k \in Occurrences(b, t), c \in FixedColumns :
                ( /\ Occurrences(b, t) = {k}
                  /\ InSpan(b, c, k)
                  /\ \E d \in FixedColumns \ {c} : (k + Len(t)) \in Occurrences(b, HeaderMarker(d)) )
                => Returned(c)

\* C5 (amended): a task name whose one occurrence starts in a column's span,
\* strictly after the index at which that column's header marker starts, and
\* ends where another column's header marker starts is reported in the
\* column of its start index.
C5_AdjacentToNextHeader ==
    Looked =>
        LET b == textContent(page)
            t == ret.taskName
        IN  \A k \in Occurrences(b, t), c \in FixedColumns :
                ( /\ Occurrences(b, t) = {k}
                  /\ InSpanAfterStart(b, c, k)
                  /\ \E d \in FixedColumns \ {c} : (k + Len(t)) \in Occurrences(b, HeaderMarker(d)) )
                => Returned(c)

\* C5 witness: such a lookup, answered with the column of the start index.
C5_Witness ==
    /\ Looked
    /\ LET b == textContent(page)
           t == ret.taskName
       IN  \E k \in Occurrences(b, t), c \in FixedColumns :
               /\ Occurrences(b, t) = {k}
               /\ InSpanAfterStart(b, c, k)
               /\ k + Len(t) = SpanEnd(b, c)
               /\ \E d \in FixedColumns \ {c} : (k + Len(t)) \in Occurrences(b, HeaderMarker(d))
               /\ Returned(c)

\* the board text of the concrete scenario
ScenarioText ==
    ToDoHeader \o Space \o ImplementAuth \o Space \o FixBug \o Space \o InProgressHeader
        \o Space \o DesignUpdates \o Space \o DoneHeader

\* C6: on the scenario's board text, "Fix bug" is in "To Do", "Design
\* updates" is in "In Progress", and "Missing task" fails with the error
\* that names it.
C6_Scenario ==
    (Looked /\ textContent(page) = ScenarioText /\ COLUMNS = <<ToDo, InProgress, Review, Done>>) =>
        /\ ret.taskName = FixBug => Returned(ToDo)
        /\ ret.taskName = DesignUpdates => Returned(InProgress)
        /\ ret.taskName = MissingTask =>
               (ret.kind = "throw" /\ ret.value = ErrPrefix \o MissingTask)

\* C6 witness: "Design updates" was looked up on the scenario's board.
C6_Witness ==
    /\ Looked
    /\ textContent(page) = ScenarioText
    /\ Len(ScenarioText) = 72
    /\ ret.taskName = DesignUpdates
    /\ Returned(InProgress)

----------------------------------------------------------------------------
(* Tag labels as the claims describe them *)

FixedTags == { Feature, Bug, Design, HighPriority }

\* the length of the run of non-blank characters s starts with
RECURSIVE RunLen(_)
RunLen(s) == IF s = <<>> \/ Head(s) = " " THEN 0 ELSE 1 + RunLen(Tail(s))

\* the words of a text: its maximal runs of non-blank characters
RECURSIVE Words(_)
Words(s) ==
    IF s = <<>> THEN <<>>
    ELSE IF Head(s) = " " THEN Words(Tail(s))
    ELSE <<SubSeq(s, 1, RunLen(s))>> \o Words(SubSeq(s, RunLen(s) + 1, Len(s)))

\* the positions of the elements whose whole text is the label
LabelElements(pg, tag) == { i \in 1..Len(pg) : Words(pg[i].text) = Words(tag) }

\* ret is the outcome of getTaskTags on the page as it is now
LookedTags == ret.op = "getTaskTags" /\ ret.kind # "running" /\ ~stale

\* ret is the outcome of verifyTaskTags on the page as it is now
VerifiedTags == ret.op = "verifyTaskTags" /\ ret.kind # "running" /\ ~stale

\* C7 as stated: a tag is in the result of getTaskTags if and only if its
\* label occurs somewhere in the board's text as a plain substring.
C7_AsStated ==
    LookedTags =>
        Range(ret.value) = { tag \in FixedTags : Occurrences(textContent(page), tag) # {} }

\* C7 (amended): a tag is in the result of getTaskTags if and only if some
\* element of the page has the tag's label as its whole text; the result
\* lists those tags in the order of the vocabulary, so a board with a
\* Feature label and a Bug label and no Design or High Priority label yields
\* exactly [Feature, Bug].
C7_TagsOfLabelElements ==
    LookedTags =>
        /\ ret.kind = "return"
        /\ ret.value = SelectSeq(possibleTags, LAMBDA tag : LabelElements(page, tag) # {})
        /\ ( { tag \in FixedTags : LabelElements(page, tag) # {} } = {Feature, Bug}
             => ret.value = <<Feature, Bug>> )

\* C7 witness: the lookup answered [Feature, Bug] on a board whose text
\* contains "Design", in the title of a card.
C7_Witness ==
    /\ LookedTags
    /\ ret.value = <<Feature, Bug>>
    /\ Occurrences(textContent(page), Design) # {}

\* C8: the tags getTaskTags answered are tags of the vocabulary, and they
\* are all still found after more elements were rendered into the board.
C8_SubsetAndMonotonic ==
    ret.op = "getTaskTags" =>
        /\ Range(ret.value) \subseteq FixedTags
        /\ \A tag \in Range(ret.value) : tagFound(page, tag)

\* C8 witness: an element was rendered after the lookup, and the board now
\* holds two elements labelled with a tag the lookup had answered.
C8_Witness ==
    /\ ret.op = "getTaskTags"
    /\ stale
    /\ \E tag \in Range(ret.value) : Cardinality(LabelElements(page, tag)) > 1

\* C9: on a given board, getTaskTags answers the same tags for every task
\* name, and verifyTaskTags answers the same success flag and the same
\* missing list for every task name; the message differs with the name.
C9_TagsIgnoreTaskName ==
    /\ LookedTags =>
           \A t \in TagTaskNames : getTaskTags(page, t).value = ret.value
    /\ VerifiedTags =>
           \A t \in TagTaskNames :
               LET r == verifyTaskTags(page, t, ret.expected).value
               IN  /\ r.success = ret.value.success
                   /\ r.missing = ret.value.missing
                   /\ (t # ret.taskName => r.message # ret.value.message)

\* C9 witness: the tags of a task that has no card on the board were
\* verified with success.
C9_Witness ==
    /\ VerifiedTags
    /\ ret.value.success
    /\ LabelElements(page, ret.taskName) = {}
    /\ Occurrences(textContent(page), ret.taskName) = {}

\* C10: the outcome of getTaskColumn and of getTaskTags is the one the board
\* text the call read, the task name and the column list determine,
\* whatever was called before and whether or not the board changed since;
\* COLUMNS stays the list the constructor set.
C10_PureLookups ==
    /\ COLUMNS = <<ToDo, InProgress, Review, Done>>
    /\ Looked =>
           LET fresh == getTaskColumn(page, <<ToDo, InProgress, Review, Done>>, ret.taskName)
           IN  ret.kind = fresh.kind /\ ret.value = fresh.value
    /\ LookedTags =>
           LET fresh == getTaskTags(page, ret.taskName)
           IN  ret.kind = fresh.kind /\ ret.value = fresh.value

\* C10 witness: a column lookup made after the board changed since the
\* lookup before it, answered with a column.
C10_Witness ==
    /\ Looked
    /\ ret.after = "changed"
    /\ ret.kind = "return"

----------------------------------------------------------------------------
(* verifyTaskTags as the claims describe it *)

\* the label of the tag is on the board: some element carries it
OnBoard(pg, tag) == LabelElements(pg, tag) # {}

\* the first element that carries the label of the tag is displayed
FirstLabelVisible(pg, tag) ==
    OnBoard(pg, tag) /\ pg[SetMin(LabelElements(pg, tag))].visible

\* the first element that carries the label is displayed, at rest and not
\* covered, enabled or not: it can be scrolled to and hovered
FirstLabelReachable(pg, tag) ==
    /\ FirstLabelVisible(pg, tag)
    /\ pg[SetMin(LabelElements(pg, tag))].obstacle \notin {"unstable", "covered"}

\* a call of verifyTaskTags has come to its end, whether or not the board
\* changed while it ran or since
VerifyEnded == ret.op = "verifyTaskTags" /\ ret.kind # "running"

\* the sequence lists members of the list, each once, in the list's order
InOrderOf(seq, list) == seq = SelectSeq(list, LAMBDA x : x \in Range(seq))

\* C11 as stated: verifyTaskTags returns a result, never an error; missing
\* is exactly the expected tags that are not found on the board, in the
\* order of the expected list; success holds if and only if missing is
\* empty.
C11_AsStated ==
    VerifiedTags =>
        /\ ret.kind = "return"
        /\ ret.value.missing = SelectSeq(ret.expected, LAMBDA tag : ~OnBoard(page, tag))
        /\ ret.value.success <=> (ret.value.missing = <<>>)

\* C11 (amended): verifyTaskTags returns a result, never an error; missing
\* lists expected tags only, in the order of the expected list, and success
\* holds if and only if missing is empty; when the board did not change
\* during the call, missing is exactly the expected tags whose first
\* labelled element is absent, not displayed, or cannot be scrolled to and
\* hovered.
C11_MissingByFirstReachable ==
    /\ VerifyEnded =>
           /\ ret.kind = "return"
           /\ InOrderOf(ret.value.missing, ret.expected)
           /\ ret.value.success <=> (ret.value.missing = <<>>)
    /\ VerifiedTags =>
           ret.value.missing =
               SelectSeq(ret.expected, LAMBDA tag : ~FirstLabelReachable(page, tag))

\* C11 witness: all three expected tags were reported missing, in the order
\* of the expected list, although two of them are on the board: one in an
\* element that is not displayed, one in a displayed element that cannot be
\* hovered.
C11_Witness ==
    /\ VerifiedTags
    /\ ret.kind = "return"
    /\ ~ret.value.success
    /\ ret.expected = <<HighPriority, Design, Bug>>
    /\ ret.value.missing = <<HighPriority, Design, Bug>>
    /\ OnBoard(page, Design) /\ ~FirstLabelVisible(page, Design)
    /\ FirstLabelVisible(page, Bug)

----------------------------------------------------------------------------
(* The run of a test as the claims describe it *)

StepOrder == <<"navigate", "visible", "column", "tags">>

SetupOrder == <<"navigate", "login", "isLoggedIn">>

\* the call of verifyTaskColumn of the test ended
ColumnStepRan == test.pc # "idle" /\ ret.op = "verifyTaskColumn" /\ ret.kind # "running"

\* the first line of the report of the test
ReportHead == CrossMark \o MsgTest \o testId \o MsgFailedAtStep \o Execution \o <<"\n", "{">>

\* C12: when getTaskColumn cannot determine a column for the task of the
\* test, verifyTaskColumn answers no result object: the error leaves it as
\* thrown; the tag step is not started, the test cannot pass any more, and
\* once the catch block ran the error is reported once, with its message in
\* the report, and the test ended failed with the error, whose message
\* names the task. A test that ended passed reported no error and
\* completed every step.
C12_LookupFailureFailsTest ==
    /\ ( ColumnStepRan /\ ~stale /\ getTaskColumn(page, COLUMNS, ret.taskName).kind = "throw" ) =>
           /\ ret.kind = "throw"
           /\ ret.value = ErrPrefix \o ret.taskName
    /\ ( ColumnStepRan /\ ret.kind = "throw" ) =>
           /\ test.pc \in {"verifyTaskColumn", "ended"}
           /\ test.status # "passed"
           /\ Len(test.log) = 3
           /\ test.done = <<"navigate", "visible">>
           /\ test.pc = "ended" =>
                  /\ test.status = "failed"
                  /\ test.error = ret.value
                  /\ Occurrences(test.error, taskName) # {}
                  /\ Len(test.reported) = 1
                  /\ SubSeq(test.reported[1], 1, Len(ReportHead)) = ReportHead
                  /\ Occurrences(test.reported[1],
                                 <<"\n", " ", " ", "\"">> \o ErrorKey \o <<"\"", ":", " ", "\"">>
                                     \o test.error \o <<"\"", ",", "\n">>) # {}
    /\ test.status = "passed" =>
           /\ test.reported = <<>>
           /\ test.error = <<>>
           /\ test.done = StepOrder
    /\ test.reported # <<>> => test.status = "failed"

\* C12 witness: the card of the task is displayed on the board, the lookup
\* of its column threw, and the test ended failed with one report.
C12_Witness ==
    /\ ColumnStepRan
    /\ ret.kind = "throw"
    /\ FirstLabelVisible(page, ret.taskName)
    /\ test.pc = "ended"
    /\ test.status = "failed"
    /\ Len(test.reported) = 1

\* the test case has the five fields of the quick start guide: testId,
\* project, taskName, expectedColumn and a list of expected tags
HasDocumentedFields(testCase) ==
    /\ \A f \in {TestIdField, ProjectField, TaskNameField, ExpectedColumnField} :
           testCase[f].type = "string" /\ testCase[f].val[1] # <<>>
    /\ testCase[ExpectedTagsField].type = "array"
    /\ testCase[ExpectedTagsField].val # <<>>

\* the body of the test went on to the navigation to the project
ReachedNavigation == test.pc = "try" \/ test.log # <<>>

\* C13: a test case with the fields testId, project, taskName,
\* expectedColumn and expectedTags, once its test body is entered, is taken
\* on to the navigation to its project and to the verifications.
C13_DocumentedFieldsSuffice ==
    ( test.entered /\ HasDocumentedFields(test.testCase) ) => ReachedNavigation

\* the field of requiredFields that comes first among the falsy ones
FieldOrder ==
    <<TestIdField, DescriptionField, ProjectField, TaskNameField, ExpectedColumnField, ExpectedTagsField>>

FalsyFields(testCase) ==
    { i \in 1..Len(FieldOrder) :
          \/ testCase[FieldOrder[i]].type = "undefined"
          \/ testCase[FieldOrder[i]].type = "string" /\ testCase[FieldOrder[i]].val[1] = <<>> }

\* no method of the DashboardPage was called: the last call is one of the
\* fixture
NoDashboardCall == ret.op \in {"none", "navigate", "login", "isLoggedIn"}

\* the test ended with the given error thrown by the validation: nothing
\* was logged or reported, and no method of the DashboardPage was called
FailedInValidation(error) ==
    /\ test.pc = "ended"
    /\ test.status = "failed"
    /\ test.error = error
    /\ test.log = <<>>
    /\ test.reported = <<>>
    /\ NoDashboardCall

\* the dashboard is shown: one element labelled Projects, displayed
ProjectsShown(pg) ==
    /\ Cardinality(LabelElements(pg, Projects)) = 1
    /\ \A i \in LabelElements(pg, Projects) : pg[i].visible

\* isLoggedIn() of the fixture returned
LoggedInAnswered == ret.op = "isLoggedIn" /\ ret.kind = "return"

\* C14: the body of a test is entered only after the fixture went to the
\* application, logged in, and isLoggedIn() answered true, which it does
\* exactly when the dashboard is shown; when it answers false, the body is
\* never entered and the test fails.
C14_BodyOnlyWhenLoggedIn ==
    /\ test.setup = SubSeq(SetupOrder, 1, Len(test.setup))
    /\ test.entered => test.setup = SetupOrder
    /\ Len(test.setup) = 3 => LoggedInAnswered \/ ~NoDashboardCall
    /\ ( LoggedInAnswered /\ ~stale ) => ( ret.value <=> ProjectsShown(page) )
    /\ ( LoggedInAnswered /\ ret.value ) => test.setup \in {SubSeq(SetupOrder, 1, 2), SetupOrder}
    /\ ( LoggedInAnswered /\ ~ret.value ) =>
           /\ test.setup = SubSeq(SetupOrder, 1, 2)
           /\ test.pc \in {"isLoggedIn", "ended"}
           /\ test.pc = "ended" => test.status = "failed" /\ test.error = ExpectDetail
    /\ ~test.entered =>
           /\ test.status # "passed"
           /\ test.log = <<>>
           /\ test.done = <<>>
           /\ test.reported = <<>>
           /\ NoDashboardCall

\* C14 witness: the login form is still shown after the login, isLoggedIn()
\* answered false, and the test ended failed without its body.
C14_Witness ==
    /\ test.pc = "ended"
    /\ test.status = "failed"
    /\ ~test.entered
    /\ LoggedInAnswered /\ ~ret.value
    /\ test.document = "login"
    /\ loginButton(page) # <<>>

\* C15: validateTestCase throws exactly when one of testId, description,
\* project, taskName, expectedColumn, expectedTags is missing or falsy, or
\* expectedTags is not an array, or is an empty array; the error of a
\* missing field names the first missing one in that order; the validation
\* runs first in the body, before the navigation and the verifications.
C15_ValidationFirst ==
    /\ ~test.entered => test.log = <<>> /\ test.done = <<>> /\ NoDashboardCall
    /\ test.entered =>
           LET testCase == test.testCase
               falsy == FalsyFields(testCase)
           IN  IF falsy # {}
               THEN FailedInValidation(MsgMissingField \o FieldOrder[SetMin(falsy)])
               ELSE IF testCase[ExpectedTagsField].type # "array"
               THEN FailedInValidation(MsgNotArray \o StringOf(testCase[TestIdField]))
               ELSE IF testCase[ExpectedTagsField].val = <<>>
               THEN FailedInValidation(MsgEmptyTags \o StringOf(testCase[TestIdField]))
               ELSE ReachedNavigation

\* C15 witness: a test case without testId and without description failed
\* in the validation with the error that names testId.
C15_Witness ==
    /\ test.entered
    /\ Cardinality(FalsyFields(test.testCase)) = 2
    /\ FailedInValidation(MsgMissingField \o TestIdField)

----------------------------------------------------------------------------
(* Spans and matching, C16, C17 and C20 *)

\* C16: for a column whose marker is on the board, the section the lookup
\* reads starts at the first occurrence of the marker and ends at the
\* smallest index after it at which the marker of any other column occurs,
\* columns earlier in the list included, or at the end of the text; a task
\* whose occurrences all lie at or after that end is not attributed to the
\* column.
C16_SpanEndsAtAnyOtherMarker ==
    Looked =>
        LET b == textContent(page)
            t == ret.taskName
        IN  \A c \in FixedColumns :
                HasMarker(b, c) =>
                    /\ indexOf(b, columnPattern(c), 0) = SpanStart(b, c)
                    /\ nextColumnLoop(b, COLUMNS, c, SpanStart(b, c), 1, Len(b)) = SpanEnd(b, c)
                    /\ ( \A k \in Occurrences(b, t) : k >= SpanEnd(b, c) ) => ~Returned(c)

\* C16 witness: the Done header comes first on the board, the To Do header
\* ends its span, the task occurs once, after the To Do header, and the
\* lookup answered To Do.
C16_Witness ==
    /\ Looked
    /\ LET b == textContent(page)
       IN  /\ HasMarker(b, Done) /\ HasMarker(b, ToDo)
           /\ SpanStart(b, Done) < SpanStart(b, ToDo)
           /\ SpanEnd(b, Done) = SpanStart(b, ToDo)
           /\ \E k \in Occurrences(b, ret.taskName) :
                  /\ Occurrences(b, ret.taskName) = {k}
                  /\ k > SpanEnd(b, Done)
           /\ Returned(ToDo)

\* the JS indices at which t occurs in b when the case of letters is ignored
OccurrencesIgnoringCase(b, t) == Occurrences(toLowerCase(b), toLowerCase(t))

\* C17: the task name is matched as a case-sensitive substring of the text:
\* a name that is on the board only in another letter case is not found,
\* and a name whose occurrences all lie in the span of one column, after
\* its marker starts, is attributed to that column also when no card has
\* the name as its whole title.
C17_CaseSensitiveSubstring ==
    Looked =>
        LET b == textContent(page)
            t == ret.taskName
        IN  /\ Occurrences(b, t) = {} => FailedNotFound
            /\ \A c \in FixedColumns :
                   ( /\ Occurrences(b, t) # {}
                     /\ \A k \in Occurrences(b, t) : InSpanAfterStart(b, c, k) )
                   => Returned(c)

\* C17 witness: the board holds the name in another letter case only, and
\* the lookup failed.
C17_Witness ==
    /\ Looked
    /\ Occurrences(textContent(page), ret.taskName) = {}
    /\ OccurrencesIgnoringCase(textContent(page), ret.taskName) # {}
    /\ FailedNotFound

\* C20: a column the lookup answers is one of the four columns, its marker
\* is on the board, and the task name has an occurrence that starts after
\* the first occurrence of the marker and before the nearest marker of
\* another column that follows it; a column whose marker is not on the
\* board is never answered.
C20_ReturnedColumnIsSound ==
    Looked =>
        LET b == textContent(page)
            t == ret.taskName
        IN  /\ ret.kind = "return" =>
                   /\ ret.value \in FixedColumns
                   /\ HasMarker(b, ret.value)
                   /\ \E k \in Occurrences(b, t) :
                          SpanStart(b, ret.value) < k /\ k < SpanEnd(b, ret.value)
            /\ \A c \in FixedColumns : ~HasMarker(b, c) => ~Returned(c)

\* C20 witness: the lookup answered a column on a board where the marker of
\* another column is absent and the task also occurs before the first
\* marker.
C20_Witness ==
    /\ Looked
    /\ ret.kind = "return"
    /\ LET b == textContent(page)
       IN  /\ \E c \in {ToDo, Review, Done} : ~HasMarker(b, c)
           /\ \E k \in Occurrences(b, ret.taskName) : k < SpanStart(b, ret.value)

----------------------------------------------------------------------------
(* The steps of a test, C18 *)

\* the line logged when step i of the body starts
StepLine(i) ==
    <<"[">> \o testId \o <<"]", " ">> \o
        CASE i = 1 -> MsgNavigating \o project
          [] i = 2 -> MsgVerifyingVisibility \o taskName
          [] i = 3 -> MsgVerifyingColumn \o StringOf(expectedColumn)
          [] i = 4 -> MsgVerifyingTags \o join(expectedTags, CommaSpace) \o MsgClose

AllPassedLine == <<"[">> \o testId \o <<"]", " ">> \o MsgAllPassed

\* the call of each step, in the order of the steps
StepCalls == <<"navigateToProject", "isTaskVisible", "verifyTaskColumn", "verifyTaskTags">>

\* the call of a step ended and the assertion of the step holds of its
\* outcome: navigateToProject returned, isTaskVisible returned true, the
\* result of verifyTaskColumn or of verifyTaskTags has success true
StepPassed(i) ==
    /\ ret.op = StepCalls[i]
    /\ ret.kind = "return"
    /\ CASE i = 1 -> TRUE
         [] i = 2 -> ret.value
         [] i \in {3, 4} -> ret.value.success

\* what the call of a step answers of the page it read: the card of the
\* task is displayed; the lookup answers the expected column; the first
\* element of every expected tag is displayed and can be hovered
StepHolds(i) ==
    CASE i = 2 -> FirstLabelVisible(page, taskName)
      [] i = 3 -> /\ expectedColumn.type = "string"
                  /\ getTaskColumn(page, COLUMNS, taskName) = Return(expectedColumn.val[1])
      [] i = 4 -> \A tag \in Range(expectedTags) : FirstLabelReachable(page, tag)

\* the log, the completed steps and the call in progress agree on the
\* order of the steps
C18_Order ==
    test.log # <<>> =>
        LET started == IF Len(test.log) > 4 THEN 4 ELSE Len(test.log)
        IN  /\ Len(test.log) <= 5
            /\ \A i \in 1..started : test.log[i] = StepLine(i)
            /\ test.done = SubSeq(StepOrder, 1, Len(test.done))
            /\ Len(test.done) >= started - 1
            /\ ret.op = StepCalls[started]
            /\ Len(test.done) = started => StepPassed(started)
            /\ \A i \in 1..Len(test.log) :
                   test.log[i] = AllPassedLine =>
                       /\ i = 5
                       /\ test.done = StepOrder
                       /\ test.status = "passed"
            /\ test.status = "passed" => test.log[Len(test.log)] = AllPassedLine

\* the assertion of the visibility step and of the column step holds of
\* the value its call returned exactly when the step holds of the page the
\* call read
C18_Answers ==
    \A i \in 2..3 :
        ( ret.op = StepCalls[i] /\ ret.kind = "return" /\ ~stale ) =>
            ( StepPassed(i) <=> StepHolds(i) )

\* a step is completed, and the next one started or the line of success
\* logged, only by a move from a state in which its call had ended and its
\* assertion held
C18_Advance ==
    Len(test'.done) > Len(test.done) =>
        /\ Len(test'.done) = Len(test.done) + 1
        /\ StepPassed(Len(test'.done))
        /\ Len(test'.log) = Len(test.log) + 1

\* C18: before and after every move of a test, its steps have started in
\* the order navigate, visibility, column, tags; a step starts only after
\* the steps before it completed and their assertions held, of values
\* that say what the page showed when the call read it; the line of
\* success is logged only after the visibility, the column and the tags
\* were all verified with success.
C18_StepsInOrder == [][C18_Order /\ C18_Order' /\ C18_Answers /\ C18_Advance]_vars

\* C18 witness: a test whose card is on the board but not displayed
\* started the visibility step and went no further; its lookups would
\* have succeeded.
C18_Witness ==
    /\ test.pc = "ended"
    /\ Len(test.log) = 2
    /\ test.done = <<"navigate">>
    /\ ~stale
    /\ ~FirstLabelVisible(page, taskName)
    /\ StepHolds(3)
    /\ StepHolds(4)

\* ret is the outcome of verifyTaskColumn on the page as it is now
VerifiedColumn == ret.op = "verifyTaskColumn" /\ ret.kind # "running" /\ ~stale

\* C19: when getTaskColumn finds a column, verifyTaskColumn returns a
\* result whose actual is that column and whose expected is the column
\* given, with success exactly when they are equal; the message says the
\* task is correctly in the expected column exactly when success holds, and
\* otherwise names the actual and the expected column.
C19_ColumnResult ==
    VerifiedColumn =>
        LET found == getTaskColumn(page, COLUMNS, ret.taskName)
        IN  found.kind = "return" =>
                /\ ret.kind = "return"
                /\ ret.value.actual = found.value
                /\ ret.value.expected = ret.expected
                /\ ret.value.success <=> (Str(found.value) = ret.expected)
                /\ ret.value.success <=>
                       ( ret.value.message =
                             MsgTask \o ret.taskName \o MsgCorrectlyIn \o StringOf(ret.expected)
                                 \o MsgColumn )
                /\ ~ret.value.success =>
                       ret.value.message =
                           MsgTask \o ret.taskName \o MsgIsIn \o found.value
                               \o MsgButExpected \o StringOf(ret.expected) \o MsgQuote

\* C19 witness: a verification of a task that is in Done against To Do.
C19_Witness ==
    /\ VerifiedColumn
    /\ ret.kind = "return"
    /\ ~ret.value.success
    /\ ret.value.actual = Done
    /\ ret.value.expected = Str(ToDo)
    /\ Occurrences(ret.value.message, Done) # {}
    /\ Occurrences(ret.value.message, ToDo) # {}

----------------------------------------------------------------------------
(* The result of verifyTaskTags, C21 *)

\* the tags of the vocabulary that some element of the board carries
TagsOnBoard(pg) == { tag \in FixedTags : OnBoard(pg, tag) }

\* C21: in every result of verifyTaskTags, actual and expected are both the
\* list of expected tags passed in, whatever tags are on the board and also
\* when missing is not empty; the result has no other field than success,
\* actual, expected, missing and message, and a tag that is on the board
\* without being expected is in none of its lists.
C21_ActualIsExpected ==
    VerifyEnded =>
        /\ ret.kind = "return"
        /\ DOMAIN ret.value = {"success", "actual", "expected", "missing", "message"}
        /\ ret.value.actual = ret.expected
        /\ ret.value.expected = ret.expected
        /\ ret.value.actual = ret.value.expected
        /\ \A tag \in TagsOnBoard(page) \ Range(ret.expected) :
               /\ tag \notin Range(ret.value.actual)
               /\ tag \notin Range(ret.value.missing)

\* C21 witness: the verification failed on a board that carries a tag that
\* was not expected and lacks one that was; actual is the expected list.
C21_Witness ==
    /\ VerifiedTags
    /\ ret.kind = "return"
    /\ ret.value.missing # <<>>
    /\ TagsOnBoard(page) \ Range(ret.expected) # {}
    /\ Range(ret.expected) \ TagsOnBoard(page) # {}
    /\ ret.value.actual = ret.expected

====
